---- MODULE Spec2Model ----
(***************************************************************************)
(* A model of confik: staging files from .config/ into the project root    *)
(* for the duration of a guarded command, and reversing every staged       *)
(* artifact afterwards (in-process cleanup, signal-driven cleanup, and     *)
(* recovery from a persisted manifest).                                    *)
(*                                                                         *)
(* Spec      one confik process at a time over a small project tree:       *)
(*           lock, pre-run recovery, walk, patches, manifest, command,     *)
(*           signal listener, cleanup, and later invocations.              *)
(* LockSpec  two confik processes contending for .config/.confik.lock.     *)
(***************************************************************************)
EXTENDS Integers, Sequences, FiniteSets, TLC

(***************************************************************************)
(* Bounds of the model.                                                    *)
(***************************************************************************)
\* how many distinct run ids createRunID can hand out before the model stops
\* starting new staging runs
NumRunIDs == 2

\* the number of confik processes started on one .config at the same time
NumProcs == 2

(***************************************************************************)
(* The project tree.  Paths are absolute, as the program holds them in     *)
(* memory; the manifest holds them relative to the working directory.      *)
(***************************************************************************)
Cwd == "/w"

\* root-relative, slash-separated names of everything the model can hold
\* under the destination root (besides .config and .git)
RelDirs == {"d", "d/e", ".vscode"}
RelFiles == {"a", "d/h", "d/e/c", ".vscode/settings.json"}
RelPaths == RelDirs \cup RelFiles

\* filepath.Join(cwd, rel)
JoinCwd(rel) == Cwd \o "/" \o rel

Paths == {JoinCwd(r) : r \in RelPaths}
Dirs == {JoinCwd(r) : r \in RelDirs}

\* filepath.Rel(base, value) followed by filepath.ToSlash, for paths under cwd
RelToCwd(abs) == CHOOSE r \in RelPaths : JoinCwd(r) = abs

\* filepath.Dir
Dir(p) ==
    CASE p = JoinCwd("d/e") -> JoinCwd("d")
      [] p = JoinCwd("d/h") -> JoinCwd("d")
      [] p = JoinCwd("d/e/c") -> JoinCwd("d/e")
      [] p = JoinCwd(".vscode/settings.json") -> JoinCwd(".vscode")
      [] OTHER -> Cwd

settingsDir == JoinCwd(".vscode")
settingsPath == JoinCwd(".vscode/settings.json")

\* the three reserved names of the source directory
configFilename == "confik.json"
manifestFilename == ".confik-manifest.json"
lockFilename == ".confik.lock"

\* the source files the model's .config can hold, besides the reserved ones
SrcFiles == {"a", "d/e/c"}
\* the files among them that the embedded registry.json lists
RegistryListed == {"a"}

\* what a node of the tree holds: nothing, a directory, or a file's bytes
\* ("user": bytes written by a human, "copy": the bytes of the source file,
\*  "partial": a truncated copy, "json": the settings document, kept in the
\*  variable settings)
Absent == "absent"
IsDirNode == "dir"
FileBytes == {"user", "copy", "partial", "json"}

\* os.Stat along a path: "dir", "file", "enoent" or "enotdir"
RECURSIVE Stat(_, _)
Stat(f, p) ==
    IF p = Cwd THEN "dir"
    ELSE LET up == Stat(f, Dir(p)) IN
         IF up = "dir"
         THEN IF f[p] = Absent THEN "enoent"
              ELSE IF f[p] = IsDirNode THEN "dir" ELSE "file"
         ELSE IF up = "file" THEN "enotdir"
         ELSE up


(***************************************************************************)
(* fs.go: path utilities.                                                  *)
(***************************************************************************)
isDirectory(f, p) == Stat(f, p) = "dir"

\* exists, were it to find nothing
exists_Never(f, p) == FALSE

\* exists(pathname)
exists(f, p) == Stat(f, p) \in {"dir", "file"}

\* os.ReadDir gives no entry
DirIsEmpty(f, p) == \A q \in Paths : Dir(q) = p => f[q] = Absent

\* the loop of ensureDirWithCache that collects the missing ancestors,
\* deepest first; verdict "ok", "skip" (an ancestor is not a directory) or
\* "err" (a stat error other than not-exist)
RECURSIVE CollectMissing(_, _, _, _)
CollectMissing(f, cache, current, missing) ==
    IF current \in cache
    THEN [verdict |-> "ok", missing |-> missing, cache |-> cache]
    ELSE LET s == Stat(f, current) IN
         CASE s = "dir" ->
                [verdict |-> "ok", missing |-> missing, cache |-> cache \cup {current}]
           [] s = "file" ->
                [verdict |-> "skip", missing |-> missing, cache |-> cache]
           [] s = "enotdir" ->
                [verdict |-> "err", missing |-> missing, cache |-> cache]
           [] OTHER ->
                IF Dir(current) = current
                THEN [verdict |-> "ok", missing |-> Append(missing, current),
                      cache |-> cache]
                ELSE CollectMissing(f, cache, Dir(current), Append(missing, current))

\* the sequence reversed
RECURSIVE Reverse(_)
Reverse(s) == IF s = <<>> THEN <<>> ELSE Append(Reverse(Tail(s)), Head(s))

\* the elements of a sequence, as a set
Range(s) == {s[i] : i \in 1..Len(s)}

\* ensureDirWithCache, were it to make and record the directory without
\* looking at the cache or at what is there
ensureDirWithCache_Always(f, dirPath, createdDirs, dryRun, cache, mkdirOk) ==
    [ok |-> TRUE, err |-> FALSE,
     fs |-> [q \in Paths |-> IF q = dirPath THEN IsDirNode ELSE f[q]],
     createdDirs |-> Append(createdDirs, dirPath),
     cache |-> cache \cup {dirPath}]

\* dirCache != nil && dirCache[p]
Cached(cache, p) == p \in cache

\* ensureDirWithCache(dirPath, &createdDirs, dryRun, dirCache); mkdirOk is
\* whether os.MkdirAll succeeds.  Gives ok, err and the new tree, list, cache.
ensureDirWithCache(f, dirPath, createdDirs, dryRun, cache, mkdirOk) ==
    LET same == [ok |-> TRUE, err |-> FALSE, fs |-> f,
                 createdDirs |-> createdDirs, cache |-> cache]
        s == Stat(f, dirPath)
    IN  IF Cached(cache, dirPath) THEN same
        ELSE IF s = "file" THEN [same EXCEPT !.ok = FALSE]
        ELSE IF s = "dir" THEN [same EXCEPT !.cache = cache \cup {dirPath}]
        ELSE IF s = "enotdir" THEN [same EXCEPT !.ok = FALSE, !.err = TRUE]
        ELSE IF dryRun THEN same
        ELSE LET c == CollectMissing(f, cache, dirPath, <<>>) IN
             IF c.verdict = "skip" THEN [same EXCEPT !.ok = FALSE]
             ELSE IF c.verdict = "err" THEN [same EXCEPT !.ok = FALSE, !.err = TRUE]
             ELSE IF ~mkdirOk
                  THEN [same EXCEPT !.ok = FALSE, !.err = TRUE, !.cache = c.cache]
             ELSE [ok |-> TRUE, err |-> FALSE,
                   fs |-> [q \in Paths |->
                             IF q \in Range(c.missing) THEN IsDirNode ELSE f[q]],
                   createdDirs |-> createdDirs \o Reverse(c.missing),
                   cache |-> c.cache \cup Range(c.missing) \cup {dirPath}]

\* ensureDir(dirPath, &createdDirs, false) of the settings patcher: one Mkdir
\* per missing component, top down.  Under cwd only dirPath itself can miss.
ensureDir(f, dirPath, createdDirs) ==
    LET s == Stat(f, dirPath) IN
    IF s = "dir" THEN [ok |-> TRUE, err |-> FALSE, fs |-> f, createdDirs |-> createdDirs]
    ELSE IF s = "file"
         THEN [ok |-> FALSE, err |-> FALSE, fs |-> f, createdDirs |-> createdDirs]
    ELSE IF s = "enotdir"
         THEN [ok |-> FALSE, err |-> TRUE, fs |-> f, createdDirs |-> createdDirs]
    ELSE [ok |-> TRUE, err |-> FALSE,
          fs |-> [f EXCEPT ![dirPath] = IsDirNode],
          createdDirs |-> Append(createdDirs, dirPath)]

\* copyFile(src, dest); how is "ok", "open" (os.Open or os.Create fails: no
\* destination) or "copy" (io.Copy or Close fails after os.Create)
copyFile(f, dest, how) ==
    CASE how = "ok" -> [err |-> FALSE, fs |-> [f EXCEPT ![dest] = "copy"]]
      [] how = "copy" -> [err |-> TRUE, fs |-> [f EXCEPT ![dest] = "partial"]]
      [] OTHER -> [err |-> TRUE, fs |-> f]

\* os.Remove, were a path that is not there an error like any other
osRemove_Strict(f, p, bad) ==
    IF /\ p \notin bad
       /\ \/ Stat(f, p) = "file"
          \/ Stat(f, p) = "dir" /\ DirIsEmpty(f, p)
    THEN [fs |-> [f EXCEPT ![p] = Absent], err |-> FALSE]
    ELSE [fs |-> f, err |-> TRUE]

\* os.Remove(p): bad are the paths whose removal the system refuses.
\* Gives the new tree and whether an error other than not-exist came back.
osRemove(f, p, bad) ==
    LET s == Stat(f, p) IN
    CASE s = "enoent" -> [fs |-> f, err |-> FALSE]
      [] s = "enotdir" -> [fs |-> f, err |-> TRUE]
      [] s = "dir" /\ ~DirIsEmpty(f, p) -> [fs |-> f, err |-> TRUE]
      [] OTHER -> IF p \in bad THEN [fs |-> f, err |-> TRUE]
                  ELSE [fs |-> [f EXCEPT ![p] = Absent], err |-> FALSE]

\* removeDirIfEmptyChecked, were it to keep every error to itself
removeDirIfEmptyChecked_Silent(f, dirPath, bad) ==
    IF Stat(f, dirPath) = "dir" /\ DirIsEmpty(f, dirPath) /\ dirPath \notin bad
    THEN [removed |-> TRUE, err |-> FALSE, fs |-> [f EXCEPT ![dirPath] = Absent]]
    ELSE [removed |-> Stat(f, dirPath) = "enoent", err |-> FALSE, fs |-> f]

\* removeDirIfEmptyChecked(dirPath)
removeDirIfEmptyChecked(f, dirPath, bad) ==
    LET s == Stat(f, dirPath) IN
    CASE s = "enoent" -> [removed |-> TRUE, err |-> FALSE, fs |-> f]
      [] s \in {"file", "enotdir"} -> [removed |-> FALSE, err |-> TRUE, fs |-> f]
      [] s = "dir" /\ ~DirIsEmpty(f, dirPath) ->
            [removed |-> FALSE, err |-> FALSE, fs |-> f]
      [] OTHER -> IF dirPath \in bad
                  THEN [removed |-> FALSE, err |-> TRUE, fs |-> f]
                  ELSE [removed |-> TRUE, err |-> FALSE,
                        fs |-> [f EXCEPT ![dirPath] = Absent]]

\* removeDirIfEmpty(dirPath): the result is dropped
removeDirIfEmpty(f, dirPath) == removeDirIfEmptyChecked(f, dirPath, {}).fs

\* uniqueStrings: order-preserving deduplication
RECURSIVE uniqueFrom(_, _)
uniqueFrom(input, seen) ==
    IF input = <<>> THEN <<>>
    ELSE IF Head(input) \in seen THEN uniqueFrom(Tail(input), seen)
    ELSE <<Head(input)>> \o uniqueFrom(Tail(input), seen \cup {Head(input)})

uniqueStrings(input) == uniqueFrom(input, {})

\* toRelativeList(base, values)
toRelativeList(values) == [i \in 1..Len(values) |-> RelToCwd(values[i])]

\* the reading of a manifest's lists back into absolute paths
fromRelativeList(rels) == [i \in 1..Len(rels) |-> JoinCwd(rels[i])]

\* sort.Slice(uniqueDirs, len(a) > len(b)): longest path first
RECURSIVE InsertByLen(_, _)
InsertByLen(sorted, p) ==
    IF sorted = <<>> THEN <<p>>
    ELSE IF Len(p) > Len(Head(sorted)) THEN <<p>> \o sorted
    ELSE <<Head(sorted)>> \o InsertByLen(Tail(sorted), p)

RECURSIVE SortByLenDesc(_)
SortByLenDesc(s) ==
    IF s = <<>> THEN <<>>
    ELSE InsertByLen(SortByLenDesc(SubSeq(s, 1, Len(s) - 1)), s[Len(s)])


(***************************************************************************)
(* The ignore-block editor (.git/info/exclude).                            *)
(*                                                                         *)
(* A file's content is held as strings.Split(content, "\n") gives it: a    *)
(* non-empty sequence of lines, the last one empty when the content ends   *)
(* with a newline; <<>> stands for "no such file".  A line is a pair:      *)
(*   <<"start", id>>  "# confik:start:" followed by id                     *)
(*   <<"end", id>>    "# confik:end:" followed by id                       *)
(*   <<"text", s>>    any other line s                                     *)
(***************************************************************************)
NoFile == <<>>
EmptyLine == <<"text", "">>
EmptyContent == <<EmptyLine>>

\* strings.HasSuffix(content, "\n")
EndsWithNewline(lines) == Len(lines) >= 2 /\ lines[Len(lines)] = EmptyLine

\* strings.Split(strings.Join(out, "\n"), "\n"): joining no line at all gives ""
Joined(out) == IF out = <<>> THEN EmptyContent ELSE out

\* the loop, were it to keep skipping to the end of the file once it began
StripLines_ToEnd(lines, runID, skipping) ==
    IF \E i \in 1..Len(lines) : lines[i][1] = "start" /\ (runID = "" \/ lines[i][2] = runID)
    THEN SubSeq(lines, 1, (CHOOSE i \in 1..Len(lines) : lines[i][1] = "start" /\ (runID = "" \/ lines[i][2] = runID) /\ \A k \in 1..(i - 1) : ~(lines[k][1] = "start" /\ (runID = "" \/ lines[k][2] = runID))) - 1)
    ELSE lines

\* the loop of removeGitIgnoreBlocks; runID "" targets every tagged block
RECURSIVE StripLines(_, _, _)
StripLines(lines, runID, skipping) ==
    IF lines = <<>> THEN <<>>
    ELSE LET line == Head(lines)
             rest == Tail(lines)
         IN  IF line[1] = "start" /\ (runID = "" \/ line = <<"start", runID>>)
             THEN StripLines(rest, runID, TRUE)
             ELSE IF skipping
                  THEN IF line[1] = "end" /\ (runID = "" \/ line = <<"end", runID>>)
                       THEN StripLines(rest, runID, FALSE)
                       ELSE StripLines(rest, runID, TRUE)
                  ELSE <<line>> \o StripLines(rest, runID, FALSE)

\* removeGitIgnoreBlocks(content, runID)
removeGitIgnoreBlocks(content, runID) ==
    LET result == Joined(StripLines(content, runID, FALSE)) IN
    IF EndsWithNewline(content) /\ ~EndsWithNewline(result)
    THEN Append(result, EmptyLine)
    ELSE result

\* the search for the start sentinel, were it never to find one
ContainsStart_Never(lines, runID) == FALSE

\* what may follow a run id in the run id of a start sentinel
IDTails == {"", "0"}

\* strings.Contains(existing, "# confik:start:" + runID): a substring test,
\* met by the start sentinel of the run id and by the start sentinel of any
\* run id that begins with it
ContainsStart(lines, runID) ==
    \E i \in 1..Len(lines) :
        lines[i][1] = "start" /\ \E t \in IDTails : lines[i][2] = runID \o t

\* appendGitIgnoreBlock(gitDir, runID, paths): the new content of the file
appendGitIgnoreBlock(file, runID, paths) ==
    LET existing == IF file = NoFile THEN EmptyContent ELSE file
        block == <<<<"start", runID>>>>
                 \o [i \in 1..Len(paths) |-> <<"text", paths[i]>>]
                 \o <<<<"end", runID>>, EmptyLine>>
        \* existing, with "\n" added when it is not empty and lacks one
        closed == IF existing # EmptyContent /\ ~EndsWithNewline(existing)
                  THEN Append(existing, EmptyLine)
                  ELSE existing
    IN  IF file # NoFile /\ ContainsStart(existing, runID)
        THEN file
        ELSE SubSeq(closed, 1, Len(closed) - 1) \o block

\* removeGitIgnoreBlock, were it to treat a missing file as an empty one
removeGitIgnoreBlock_Create(file, runID) == removeGitIgnoreBlocks(IF file = NoFile THEN EmptyContent ELSE file, runID)

\* removeGitIgnoreBlock, were it to leave the file alone
removeGitIgnoreBlock_Keep(file, runID) == file

\* removeGitIgnoreBlock(excludePath, runID): the file afterwards
removeGitIgnoreBlock(file, runID) ==
    IF file = NoFile THEN file ELSE removeGitIgnoreBlocks(file, runID)

\* removeAllGitIgnoreBlocks, were it to leave the file alone
removeAllGitIgnoreBlocks_Keep(file) == file

\* removeAllGitIgnoreBlocks(excludePath): the file afterwards
removeAllGitIgnoreBlocks(file) ==
    IF file = NoFile THEN file ELSE removeGitIgnoreBlocks(file, "")

\* whether appendGitIgnoreBlock reaches its os.WriteFile
appendWrites(file, runID) == ~(file # NoFile /\ ContainsStart(file, runID))

\* whether removeGitIgnoreBlock / removeAllGitIgnoreBlocks reaches its
\* os.WriteFile: the file was read and the updated content differs
removeWrites(file, runID) == file # NoFile /\ removeGitIgnoreBlocks(file, runID) # file

\* the ignore-file lines the orchestrator derives from the created files:
\* "/" + the path relative to the git root (the working directory)
IgnorePaths(createdFiles) ==
    [i \in 1..Len(createdFiles) |-> "/" \o RelToCwd(createdFiles[i])]

\* GitContext, and "no context" (a nil pointer)
NoGit == [on |-> FALSE, RunID |-> ""]
GitContext(runID) == [on |-> TRUE, RunID |-> runID]


(***************************************************************************)
(* vscode.go: the editor-settings patcher.                                 *)
(*                                                                         *)
(* The settings document is held by its structure: st is "absent", "bad"   *)
(* (not parsable, or its root is no object) or "doc"; excl says whether    *)
(* the root has a "files.exclude" member ("none"), one that is no object   *)
(* ("nonobj") or an object ("obj") with the member names keys; other says  *)
(* the root has members besides files.exclude; comments says where the     *)
(* bytes hold comment tokens: in the text that surrounds the name or the   *)
(* value of member k of files.exclude (the place k: the parse tree keeps   *)
(* that text with the member), elsewhere in the member files.exclude (the  *)
(* place "files.exclude"), or anywhere else in the document ("root").      *)
(***************************************************************************)
NoDoc == [st |-> "absent", excl |-> "none", keys |-> {}, other |-> FALSE,
          comments |-> {}]

\* containsJSONCComment, were it to find no comment in any content
containsJSONCComment_Never(d) == FALSE

\* containsJSONCComment(content)
containsJSONCComment(d) == d.comments # {}

\* parseVSCodeSettings, were it to accept any content
parseVSCodeSettings_Always(d) == TRUE

\* parseVSCodeSettings(content, settingsPath): whether it returns no error,
\* the content parses and its root is an object
parseVSCodeSettings(d) == d.st = "doc"

\* VSCodeContext, and "no context" (a nil pointer)
NoVS == [on |-> FALSE, AddedKeys |-> <<>>, FilesExcludeCreated |-> FALSE,
         SettingsCreated |-> FALSE]

\* uniqueRelativePaths(base, paths)
uniqueRelativePaths(paths) == uniqueStrings(toRelativeList(paths))

\* applyVSCodeExcludes(cwd, stagedFiles, &createdFiles, &createdDirs)
applyVSCodeExcludes(f, doc, stagedFiles, createdFiles, createdDirs) ==
    LET paths == uniqueRelativePaths(stagedFiles)
        none == [ctx |-> NoVS, err |-> FALSE, fs |-> f, doc |-> doc,
                 createdFiles |-> createdFiles, createdDirs |-> createdDirs]
    IN  IF paths = <<>> THEN none
        ELSE IF ~exists(f, settingsPath)
        THEN LET e == ensureDir(f, settingsDir, createdDirs) IN
             IF e.err \/ ~e.ok
             THEN [none EXCEPT !.err = TRUE, !.fs = e.fs, !.createdDirs = e.createdDirs]
             ELSE [ctx |-> [on |-> TRUE, AddedKeys |-> paths,
                            FilesExcludeCreated |-> TRUE, SettingsCreated |-> TRUE],
                   err |-> FALSE,
                   fs |-> [e.fs EXCEPT ![settingsPath] = "json"],
                   doc |-> [st |-> "doc", excl |-> "obj", keys |-> Range(paths),
                            other |-> FALSE, comments |-> {}],
                   createdFiles |-> Append(createdFiles, settingsPath),
                   createdDirs |-> e.createdDirs]
        ELSE IF ~parseVSCodeSettings(doc) THEN none
        ELSE IF doc.excl = "nonobj" THEN none
        ELSE LET created == doc.excl = "none"
                 had == IF created THEN {} ELSE doc.keys
                 addedKeys == SelectSeq(paths, LAMBDA k : k \notin had)
             IN  IF addedKeys = <<>> /\ ~created THEN none
                 ELSE [none EXCEPT
                         !.ctx = [on |-> TRUE, AddedKeys |-> addedKeys,
                                  FilesExcludeCreated |-> created,
                                  SettingsCreated |-> FALSE],
                         !.doc = [doc EXCEPT !.excl = "obj",
                                             !.keys = had \cup Range(addedKeys)]]

\* removeVSCodeSettingsIfEmpty(map[string]any{}, settingsPath): an error of
\* os.Remove ends it with nil
removeVSCodeSettingsIfEmpty(f, bad) ==
    IF Stat(f, settingsPath) # "file" \/ settingsPath \in bad THEN f
    ELSE removeDirIfEmpty([f EXCEPT ![settingsPath] = Absent], settingsDir)

\* removeVSCodeExcludes(ctx): the tree and the document afterwards
removeVSCodeExcludes(f, doc, ctx, bad) ==
    LET same == [fs |-> f, doc |-> doc] IN
    IF ~ctx.on THEN same
    ELSE IF Stat(f, settingsPath) # "file" THEN same
    ELSE IF ~parseVSCodeSettings(doc) THEN same
    ELSE IF doc.excl # "obj" THEN same
    ELSE LET kept == doc.keys \ Range(ctx.AddedKeys)
             dropMember == ctx.FilesExcludeCreated /\ kept = {}
             changed == kept # doc.keys \/ dropMember
             rootEmpty == dropMember /\ ~doc.other
             \* removeObjectMember and the removal of the member files.exclude
             \* drop a member together with the text around its name and value
             packed == IF dropMember
                       THEN [doc EXCEPT !.excl = "none", !.keys = {},
                                        !.comments = @ \cap {"root"}]
                       ELSE [doc EXCEPT !.keys = kept,
                                        !.comments = @ \ (doc.keys \ kept)]
         IN  IF ~changed THEN same
             ELSE IF ctx.SettingsCreated /\ rootEmpty /\ ~containsJSONCComment(doc)
                  THEN LET g == removeVSCodeSettingsIfEmpty(f, bad) IN
                       [fs |-> g,
                        doc |-> IF g[settingsPath] = Absent THEN NoDoc ELSE packed]
                  ELSE [fs |-> f, doc |-> packed]

(***************************************************************************)
(* manifest.go: the manifest store.                                        *)
(***************************************************************************)
manifestPath == Cwd \o "/.config/" \o manifestFilename

\* no manifest file
NoManifest == [st |-> "none", RunID |-> "", CreatedFiles |-> <<>>,
               CreatedDirs |-> <<>>, Gitignore |-> NoGit, VSCode |-> NoVS]

\* the Manifest, were the created directories left out
Manifest_NoDirs(runID, createdFiles, createdDirs, gitContext, vscodeContext) ==
    [st |-> "ok", RunID |-> runID,
     CreatedFiles |-> toRelativeList(createdFiles),
     CreatedDirs |-> <<>>,
     Gitignore |-> gitContext, VSCode |-> vscodeContext]

\* the Manifest the orchestrator builds from its lists and contexts
Manifest(runID, createdFiles, createdDirs, gitContext, vscodeContext) ==
    [st |-> "ok", RunID |-> runID,
     CreatedFiles |-> toRelativeList(createdFiles),
     CreatedDirs |-> toRelativeList(createdDirs),
     Gitignore |-> gitContext, VSCode |-> vscodeContext]


\* the loop over the created files, were it to remove nothing
RemoveFilesLoop_None(f, files, settingsCreatedPath, bad) ==
    [fs |-> f, failures |-> 0, remaining |-> {}]

\* the loop over the created files, were the settings file it passes over
\* counted as remaining when it is still there
RECURSIVE RemoveFilesLoop_CountSkipped(_, _, _, _)
RemoveFilesLoop_CountSkipped(f, files, settingsCreatedPath, bad) ==
    IF files = <<>> THEN [fs |-> f, failures |-> 0, remaining |-> {}]
    ELSE LET filePath == Head(files)
             skip == settingsCreatedPath # "" /\ filePath = settingsCreatedPath
             r == IF skip THEN [fs |-> f, err |-> FALSE] ELSE osRemove(f, filePath, bad)
             rest == RemoveFilesLoop_CountSkipped(r.fs, Tail(files), settingsCreatedPath, bad)
         IN  [fs |-> rest.fs,
              failures |-> rest.failures + (IF r.err THEN 1 ELSE 0),
              remaining |-> rest.remaining \cup
                            (IF exists(r.fs, filePath) THEN {filePath} ELSE {})]

(***************************************************************************)
(* Cleanup and recovery.                                                   *)
(***************************************************************************)
\* the loop of cleanupStagedArtifacts over createdFiles: os.Remove each one
\* but the settings file this run created; failures counts the errors,
\* remaining collects the paths still there
RECURSIVE RemoveFilesLoop(_, _, _, _)
RemoveFilesLoop(f, files, settingsCreatedPath, bad) ==
    IF files = <<>> THEN [fs |-> f, failures |-> 0, remaining |-> {}]
    ELSE LET filePath == Head(files) IN
         IF settingsCreatedPath # "" /\ filePath = settingsCreatedPath
         THEN RemoveFilesLoop(f, Tail(files), settingsCreatedPath, bad)
         ELSE LET r == osRemove(f, filePath, bad)
                  rest == RemoveFilesLoop(r.fs, Tail(files), settingsCreatedPath, bad)
              IN  [fs |-> rest.fs,
                   failures |-> rest.failures + (IF r.err THEN 1 ELSE 0),
                   remaining |-> rest.remaining \cup
                                 (IF exists(r.fs, filePath) THEN {filePath} ELSE {})]

\* the loop of cleanupStagedArtifacts over the sorted directories
RECURSIVE RemoveDirsLoop(_, _, _)
RemoveDirsLoop(f, dirs, bad) ==
    IF dirs = <<>> THEN [fs |-> f, failures |-> 0, remaining |-> {}]
    ELSE LET dirPath == Head(dirs)
             r == removeDirIfEmptyChecked(f, dirPath, bad)
             rest == RemoveDirsLoop(r.fs, Tail(dirs), bad)
         IN  [fs |-> rest.fs,
              failures |-> rest.failures + (IF r.err THEN 1 ELSE 0),
              remaining |-> rest.remaining \cup
                            (IF ~r.err /\ ~r.removed /\ exists(r.fs, dirPath)
                             THEN {dirPath} ELSE {})]

\* the directories, were they left in the order of their creation
CleanupDirOrder_Unsorted(createdDirs) == uniqueStrings(createdDirs)

\* the order in which cleanupStagedArtifacts visits the directories
CleanupDirOrder(createdDirs) == SortByLenDesc(uniqueStrings(createdDirs))

\* the end of cleanupStagedArtifacts: the ignore block, then the manifest
\* when nothing failed and nothing remains; vs, files and dirs are what the
\* settings reversal and the two loops gave.  err is whether an error is
\* returned.
cleanupAfterDirs(w, vs, files, dirs, gitContext, removeManifest, bad) ==
    LET failures == files.failures + dirs.failures
        remaining == files.remaining \cup dirs.remaining
        shouldRemoveManifest == removeManifest /\ failures = 0 /\ remaining = {}
        manifestStays == w.manifest.st # "none"
                         /\ (~shouldRemoveManifest \/ manifestPath \in bad)
    IN  [fs |-> dirs.fs, doc |-> vs.doc,
         exclude |-> IF gitContext.on
                     THEN removeGitIgnoreBlock(w.exclude, gitContext.RunID)
                     ELSE w.exclude,
         manifest |-> IF manifestStays THEN w.manifest ELSE NoManifest,
         err |-> failures # 0 \/ remaining # {}
                 \/ (shouldRemoveManifest /\ manifestStays)]

\* cleanupStagedArtifacts from the loop over the directories on
cleanupAfterFiles(w, vs, files, createdDirs, gitContext, removeManifest, bad) ==
    cleanupAfterDirs(w, vs, files,
                     RemoveDirsLoop(files.fs, CleanupDirOrder(createdDirs), bad),
                     gitContext, removeManifest, bad)

\* cleanupStagedArtifacts from the loop over the files on
cleanupAfterSettings(w, vs, createdFiles, createdDirs, vscodeContext, gitContext, removeManifest, bad) ==
    cleanupAfterFiles(w, vs,
                      RemoveFilesLoop(vs.fs, createdFiles,
                                      IF vscodeContext.on /\ vscodeContext.SettingsCreated
                                      THEN settingsPath ELSE "",
                                      bad),
                      createdDirs, gitContext, removeManifest, bad)

\* cleanupStagedArtifacts(manifestPath, createdFiles, createdDirs,
\* vscodeContext, gitContext, unlock, removeManifest) up to the release of
\* the lock, on the world w = [fs, doc, exclude, manifest]; bad are the paths
\* whose removal the system refuses
cleanupStagedArtifacts(w, createdFiles, createdDirs, vscodeContext, gitContext, removeManifest, bad) ==
    cleanupAfterSettings(w, removeVSCodeExcludes(w.fs, w.doc, vscodeContext, bad),
                         createdFiles, createdDirs, vscodeContext, gitContext,
                         removeManifest, bad)

\* cleanLeftovers, were it to act on the manifest only when forced
cleanLeftovers_ForceOnly(w, force, gitDir, bad) ==
    LET m == w.manifest
        same == [fs |-> w.fs, doc |-> w.doc, exclude |-> w.exclude,
                 manifest |-> w.manifest, err |-> FALSE]
    IN  IF force /\ m.st = "ok"
        THEN cleanupStagedArtifacts(w, fromRelativeList(m.CreatedFiles),
                 fromRelativeList(m.CreatedDirs), m.VSCode, m.Gitignore, TRUE, bad)
        ELSE same

\* cleanLeftovers(cwd, force, quiet); gitDir is whether cwd/.git is there
cleanLeftovers(w, force, gitDir, bad) ==
    LET m == w.manifest
        same == [fs |-> w.fs, doc |-> w.doc, exclude |-> w.exclude,
                 manifest |-> w.manifest, err |-> FALSE]
        cleaned == m.st = "ok"
        first == IF m.st = "ok"
                 THEN cleanupStagedArtifacts(w, fromRelativeList(m.CreatedFiles),
                          fromRelativeList(m.CreatedDirs), m.VSCode, m.Gitignore,
                          TRUE, bad)
                 ELSE IF m.st = "bad" THEN [same EXCEPT !.err = TRUE]
                 ELSE same
    IN  IF ~cleaned /\ force /\ gitDir
        THEN [first EXCEPT !.exclude = removeAllGitIgnoreBlocks(first.exclude)]
        ELSE first


(***************************************************************************)
(* main.go: the orchestrator.                                              *)
(***************************************************************************)
\* the run ids createRunID can give; a new one is never one still on disk
IDName == <<"r1", "r2", "r3", "r4">>
RunIDs == {IDName[i] : i \in 1..NumRunIDs}

\* the exit codes the guarded command can end with
ExitCodes == {0, 7}

\* what parseArgs can give: --clean, --dry-run (with and without a command),
\* a command, or nothing (standalone mode)
ParsedArgs ==
    {[Clean |-> TRUE, DryRun |-> FALSE, Command |-> FALSE],
     [Clean |-> FALSE, DryRun |-> TRUE, Command |-> TRUE],
     [Clean |-> FALSE, DryRun |-> TRUE, Command |-> FALSE],
     [Clean |-> FALSE, DryRun |-> FALSE, Command |-> TRUE],
     [Clean |-> FALSE, DryRun |-> FALSE, Command |-> FALSE]}

\* the entries of .config in the order filepath.WalkDir visits its files
WalkOrder == <<manifestFilename, lockFilename, "a", configFilename, "d/e/c">>

\* the reserved names the walk callback skips
Reserved == {configFilename, manifestFilename, lockFilename}

\* the lists and the tree one walk callback works on
WalkState(f, createdFiles, createdDirs, skippedExisting, skippedExcluded, skippedRegistry, dirCache) ==
    [fs |-> f, createdFiles |-> createdFiles, createdDirs |-> createdDirs,
     skippedExisting |-> skippedExisting, skippedExcluded |-> skippedExcluded,
     skippedRegistry |-> skippedRegistry, dirCache |-> dirCache,
     err |-> FALSE, bucket |-> "reserved"]

\* the registry test, were it never to skip a file
RegistrySkips_Never(useRegistry, relPosix, overridden) == FALSE

\* the registry test of the callback: the registry is in force, the file
\* matches one of its patterns and no override pattern re-admits it
RegistrySkips(useRegistry, relPosix, overridden) ==
    useRegistry /\ relPosix \in RegistryListed /\ ~overridden

\* useRegistry := parsed.Flags.Registry && config.Registry
UseRegistry(flagRegistry, configRegistry) == flagRegistry /\ configRegistry

\* the callback run hands to filepath.WalkDir, for the file relPosix of
\* .config.  excluded and overridden are what matchesPatternList answers for
\* config.Exclude and config.RegistryOverride; how and mkdirOk are what the
\* system answers to the copy and to os.MkdirAll.
WalkFile(st, relPosix, useRegistry, excluded, overridden, dryRun, how, mkdirOk) ==
    LET dest == JoinCwd(relPosix) IN
    IF relPosix \in Reserved THEN st
    ELSE IF excluded
    THEN [st EXCEPT !.skippedExcluded = Append(@, relPosix), !.bucket = "excluded"]
    ELSE IF RegistrySkips(useRegistry, relPosix, overridden)
    THEN [st EXCEPT !.skippedRegistry = Append(@, relPosix), !.bucket = "registry"]
    ELSE IF exists(st.fs, dest)
    THEN [st EXCEPT !.skippedExisting = Append(@, relPosix), !.bucket = "existing"]
    ELSE LET e == ensureDirWithCache(st.fs, Dir(dest), st.createdDirs, dryRun,
                                     st.dirCache, mkdirOk)
         IN  IF e.err
             THEN [st EXCEPT !.err = TRUE, !.dirCache = e.cache, !.bucket = "fatal"]
             ELSE IF ~e.ok
             THEN [st EXCEPT !.skippedExisting = Append(@, relPosix),
                             !.dirCache = e.cache, !.bucket = "existing"]
             ELSE LET c == IF dryRun THEN [err |-> FALSE, fs |-> e.fs]
                           ELSE copyFile(e.fs, dest, how)
                  IN  IF c.err
                      THEN [st EXCEPT !.fs = c.fs, !.createdDirs = e.createdDirs,
                                      !.dirCache = e.cache, !.err = TRUE,
                                      !.bucket = "fatal"]
                      ELSE [st EXCEPT !.fs = c.fs, !.createdDirs = e.createdDirs,
                                      !.dirCache = e.cache,
                                      !.createdFiles = Append(@, dest),
                                      !.bucket = "staged"]

\* the exit code, were it always that of success
ExitCodeAfter_Zero(command, code, runErr, cleanupFailed) == 0

\* the exit code, were the command's own code dropped
ExitCodeAfter_Cleanup(command, code, runErr, cleanupFailed) ==
    IF cleanupFailed \/ runErr \/ ~command THEN 1 ELSE 0

\* the exit code after runCommandAndExit (command mode) or after the
\* standalone wait returned "interrupted"
ExitCodeAfter(command, code, runErr, cleanupFailed) ==
    IF ~command THEN 1
    ELSE IF runErr THEN 1
    ELSE IF code # 0 THEN code
    ELSE IF cleanupFailed THEN 1
    ELSE 0


(***************************************************************************)
(* The state of one project directory and of the confik process working   *)
(* in it.                                                                  *)
(***************************************************************************)
VARIABLES
    fs,               \* the destination tree: node kind or bytes per path
    doc,              \* the document in .vscode/settings.json
    exclude,          \* the lines of .git/info/exclude, NoFile when absent
    manifest,         \* .config/.confik-manifest.json
    lockFile,         \* whether .config/.confik.lock exists
    src,              \* the source files under .config
    gitDir,           \* whether cwd/.git is a directory
    configDir,        \* whether cwd/.config is a directory
    budget,           \* how many invocations of confik are still to come
    flock,            \* the process holding the flock on the lock file, 0: none
    lpc,              \* where each of the processes racing for the lock is
    notice,           \* which of them printed the waiting notice
    guarded,          \* how many of its guarded steps each of them has done
    primErr,          \* to which of them the open or the flock call failed
    call,             \* the last call of an editor function made on its own
    pc,               \* where run() is
    parsed,           \* the parsed arguments
    useRegistry,      \* parsed.Flags.Registry && config.Registry
    runID,
    queue,            \* the files filepath.WalkDir has still to visit
    createdFiles, createdDirs,
    skippedExisting, skippedExcluded, skippedRegistry,
    dirCache,
    vscodeContext, gitContext,
    lockHeld,         \* whether this process holds the flock
    once,             \* cleanupOnce: "idle", "running" or "done"
    cleanupErr,
    sigArmed,         \* signal.Notify in force
    sigPending,       \* a signal waits in sigCh
    sigPc,            \* where the signal goroutine is
    childCode, childErr,  \* what runCommand returned
    exitCode,
    startFs,          \* the destination tree when the run started
    edited,           \* someone else changed the tree during the run
    fsErr,            \* the system refused an operation during the run
    refused,          \* the system refused a removal to a cleanup of the run
    cleanupCount,     \* how often the cleanup body ran in this run
    sigSeen,          \* a signal reached the process of this run
    exitVia,          \* which path ended the process
    launched,         \* whether the command was started, and the manifest then
    killed            \* what the last killed run left behind

worldVars == <<fs, doc, exclude, manifest>>
lockVars == <<flock, lpc, notice, guarded, primErr>>
envVars == <<src, gitDir, configDir, budget, lockVars, call>>
listVars == <<createdFiles, createdDirs, skippedExisting, skippedExcluded,
              skippedRegistry, dirCache>>
ctxVars == <<vscodeContext, gitContext>>
sigVars == <<sigArmed, sigPending, sigPc>>
childVars == <<childCode, childErr>>
histVars == <<startFs, edited, cleanupCount, sigSeen, launched, killed>>

vars == <<fs, doc, exclude, manifest, lockFile, src, gitDir, configDir, budget,
          flock, lpc, notice, guarded, primErr, call, pc,
          parsed, useRegistry, runID, queue, createdFiles, createdDirs,
          skippedExisting, skippedExcluded, skippedRegistry, dirCache,
          vscodeContext, gitContext, lockHeld, once, cleanupErr, sigArmed,
          sigPending, sigPc, childCode, childErr, exitCode, startFs, edited,
          fsErr, refused, cleanupCount, sigSeen, exitVia, launched, killed>>

World == [fs |-> fs, doc |-> doc, exclude |-> exclude, manifest |-> manifest]

NoLaunch == [done |-> FALSE, manifest |-> NoManifest, staged |-> 0,
             writeFailed |-> FALSE]
NoKilled == [made |-> {}, RunID |-> "", keys |-> {}, hadManifest |-> FALSE,
             edited |-> FALSE, recovered |-> FALSE]

\* a recovery pass went over what the killed run left
MarkRecovered(k) == IF k = NoKilled THEN k ELSE [k EXCEPT !.recovered = TRUE]

\* a tree the user can have: what is under a path implies a directory there
WellFormed(f) ==
    \A p \in Paths : f[p] # Absent /\ Dir(p) # Cwd => f[Dir(p)] = IsDirNode

\* the trees the runs start from: the user's own files and directories
UserTrees ==
    {f \in [Paths -> {Absent, IsDirNode, "user", "json"}] :
        /\ WellFormed(f)
        /\ f[JoinCwd("d/h")] = Absent
        /\ f[JoinCwd("d/e")] \in {Absent, IsDirNode}
        /\ f[JoinCwd("d/e")] = IsDirNode => f[JoinCwd("d/e/c")] = "user"
        /\ f[JoinCwd("a")] = "user" => f[JoinCwd("d")] \in {Absent, "user"}
        /\ f[settingsDir] \in {Absent, IsDirNode}
        /\ f[settingsPath] \in {Absent, "json"}
        /\ \A r \in RelDirs \ {".vscode"} : f[JoinCwd(r)] # "json"
        /\ \A r \in RelFiles \ {".vscode/settings.json"} :
               f[JoinCwd(r)] \in {Absent, "user"}}

\* the settings documents the user can have
UserDocs ==
    {[st |-> "doc", excl |-> "obj", keys |-> {"a"}, other |-> FALSE, comments |-> {}]}

\* the exclude files the user can have: none, or one line of their own
UserExcludes == {NoFile, <<<<"text", "u">>, EmptyLine>>}

\* the processes that race for the lock of one .config
Procs == 1..NumProcs

\* no call of an editor function on its own
NoCall == [op |-> "none", runID |-> "", paths |-> <<>>, before |-> <<>>,
           same |-> FALSE, n |-> 0, wrote |-> FALSE, err |-> FALSE,
           ok |-> FALSE]

\* no confik process is running
NoneRunning ==
    /\ flock = 0
    /\ lpc = [p \in Procs |-> "start"]
    /\ notice = [p \in Procs |-> FALSE]
    /\ primErr = [p \in Procs |-> FALSE]
    /\ guarded = [p \in Procs |-> 0]
    /\ call = NoCall
    /\ lockFile = FALSE
    /\ pc = "idle"
    /\ parsed = [Clean |-> FALSE, DryRun |-> FALSE, Command |-> FALSE]
    /\ useRegistry = FALSE
    /\ runID = ""
    /\ queue = <<>>
    /\ createdFiles = <<>> /\ createdDirs = <<>>
    /\ skippedExisting = <<>> /\ skippedExcluded = <<>> /\ skippedRegistry = <<>>
    /\ dirCache = {}
    /\ vscodeContext = NoVS /\ gitContext = NoGit
    /\ lockHeld = FALSE
    /\ once = "idle"
    /\ cleanupErr = FALSE
    /\ sigArmed = FALSE /\ sigPending = FALSE /\ sigPc = "none"
    /\ childCode = 0 /\ childErr = FALSE
    /\ exitCode = 0
    /\ startFs = fs
    /\ edited = FALSE /\ fsErr = FALSE /\ refused = FALSE
    /\ cleanupCount = 0
    /\ sigSeen = FALSE
    /\ exitVia = "none"
    /\ launched = NoLaunch
    /\ killed = NoKilled

\* no confik process has been started
NoProcess == manifest = NoManifest /\ NoneRunning

\* a project before confik ever ran in it
InitWorld ==
    /\ configDir \in BOOLEAN
    /\ gitDir \in BOOLEAN
    /\ fs \in UserTrees
    /\ doc \in UserDocs \cup {NoDoc}
    /\ (doc = NoDoc) = (fs[settingsPath] = Absent)
    /\ exclude \in UserExcludes
    /\ src \in {{}, SrcFiles}
    /\ (src # {}) => configDir
    /\ configDir \/ fs = [p \in Paths |-> Absent]
    /\ gitDir = configDir
    /\ gitDir = (exclude # NoFile)
    /\ NoProcess

\* one invocation of confik
Init == InitWorld /\ budget = 1


(***************************************************************************)
(* The steps of run().                                                     *)
(***************************************************************************)
\* the run ids with a tagged line in the ignore file
BlockIDs(lines) ==
    {id \in RunIDs : \E i \in 1..Len(lines) :
                        lines[i] = <<"start", id>> \/ lines[i] = <<"end", id>>}

\* createRunID: time and random bits, so never an id still on disk
FreshIDs(lines, m) == {id \in RunIDs : id \notin BlockIDs(lines) /\ id # m.RunID}

createRunID(lines, m) ==
    LET free == {i \in 1..NumRunIDs : IDName[i] \in FreshIDs(lines, m)}
    IN  IDName[CHOOSE i \in free : \A j \in free : i <= j]

\* the refusals the system can answer a cleanup with: none, the first of
\* the files the cleanup is about, or the settings file among them
BadChoices(files, dirs) ==
    {{}} \cup {{files[1]} : i \in 1..(IF files = <<>> THEN 0 ELSE 1)}
         \cup {{p} : p \in {settingsPath} \cap Range(files)}

Alive == pc \notin {"idle", "exited", "killed"}

\* the unlock closure, were it to return without releasing
unlock_Noop(held) == held

\* the unlock closure of run: lock.Unlock() when lockHeld, then lockHeld is
\* false
unlock(held) == IF held THEN FALSE ELSE held

\* the process is gone: its goroutines and its memory with it (lockHeld is
\* kept as the program left it)
ProcessEnds ==
    /\ sigArmed' = FALSE
    /\ sigPending' = FALSE
    /\ sigPc' = "none"
    /\ queue' = <<>>
    /\ createdFiles' = <<>> /\ createdDirs' = <<>>
    /\ skippedExisting' = <<>> /\ skippedExcluded' = <<>>
    /\ skippedRegistry' = <<>>
    /\ dirCache' = {}
    /\ vscodeContext' = NoVS /\ gitContext' = NoGit

\* confik is invoked: parseArgs, then the check for .config
Start(p) ==
    /\ pc \in {"idle", "exited", "killed"}
    /\ budget > 0
    /\ budget' = budget - 1
    /\ (configDir /\ ~p.Clean) => FreshIDs(exclude, manifest) # {}
    /\ parsed' = p
    /\ useRegistry' = FALSE
    /\ runID' = ""
    /\ once' = "idle" /\ cleanupErr' = FALSE
    /\ childCode' = 0 /\ childErr' = FALSE
    /\ startFs' = fs
    /\ edited' = FALSE /\ fsErr' = FALSE /\ refused' = FALSE
    /\ cleanupCount' = 0
    /\ sigSeen' = FALSE
    /\ launched' = NoLaunch
    /\ lockHeld' = FALSE
    /\ ProcessEnds
    /\ IF configDir
       THEN pc' = "acquire" /\ exitCode' = 0 /\ exitVia' = "none"
       ELSE IF p.Clean \/ ~p.Command
            THEN pc' = "exited" /\ exitCode' = 0 /\ exitVia' = "noconfig"
            ELSE pc' = "bare" /\ exitCode' = 0 /\ exitVia' = "none"
    /\ UNCHANGED <<worldVars, lockFile, src, gitDir, configDir, lockVars, call,
                   killed>>

\* acquireLock(lockPath) with no other process about: open, flock, metadata
AcquireLock(openOk) ==
    /\ pc = "acquire"
    /\ IF openOk
       THEN /\ lockFile' = TRUE
            /\ lockHeld' = TRUE
            /\ pc' = "locked"
            /\ UNCHANGED <<exitCode, exitVia, fsErr, refused>>
       ELSE /\ pc' = "exited"
            /\ exitCode' = 1
            /\ exitVia' = "error"
            /\ fsErr' = TRUE
            /\ UNCHANGED <<lockFile, lockHeld, refused>>
    /\ UNCHANGED <<worldVars, envVars, parsed, useRegistry, runID, queue,
                   listVars, ctxVars, once, cleanupErr, sigVars, childVars,
                   startFs, edited, cleanupCount, sigSeen, launched,
                   killed>>

\* --clean: cleanLeftovers(cwd, true, false), then the deferred unlock
CleanCmd(bad) ==
    /\ pc = "locked"
    /\ parsed.Clean
    /\ bad \in BadChoices(fromRelativeList(manifest.CreatedFiles),
                          fromRelativeList(manifest.CreatedDirs))
    /\ \E r \in {cleanLeftovers(World, TRUE, gitDir, bad)} :
         /\ fs' = r.fs /\ doc' = r.doc /\ exclude' = r.exclude
         /\ manifest' = r.manifest
         /\ exitCode' = IF r.err THEN 1 ELSE 0
    /\ fsErr' = (fsErr \/ bad # {})
    /\ refused' = (refused \/ bad # {})
    /\ pc' = "exited"
    /\ exitVia' = "clean"
    /\ killed' = MarkRecovered(killed)
    /\ lockHeld' = unlock(lockHeld)
    /\ ProcessEnds
    /\ UNCHANGED <<lockFile, envVars, parsed, useRegistry, runID, once, cleanupErr, childVars, startFs,
                   edited, cleanupCount, sigSeen, launched>>

\* the pre-run recovery when a manifest is there, loadConfig, createRunID
\* and the start of the walk over .config
PreRun(bad, registry) ==
    /\ pc = "locked"
    /\ ~parsed.Clean
    /\ bad \in BadChoices(fromRelativeList(manifest.CreatedFiles),
                          fromRelativeList(manifest.CreatedDirs))
    /\ manifest.st = "none" => bad = {}
    /\ \E r \in {IF manifest.st # "none"
                THEN cleanLeftovers(World, FALSE, gitDir, bad)
                ELSE [fs |-> fs, doc |-> doc, exclude |-> exclude,
                      manifest |-> manifest, err |-> FALSE]} :
           /\ fs' = r.fs /\ doc' = r.doc /\ exclude' = r.exclude
           /\ manifest' = r.manifest
           /\ startFs' = r.fs
           /\ runID' = createRunID(r.exclude, r.manifest)
           /\ queue' = SelectSeq(WalkOrder,
                          LAMBDA n : \/ n \in {lockFilename, configFilename}
                                     \/ n = manifestFilename /\ r.manifest.st # "none"
                                     \/ n \in src)
    /\ fsErr' = (fsErr \/ bad # {})
    /\ refused' = (refused \/ bad # {})
    /\ killed' = IF manifest.st # "none" THEN MarkRecovered(killed) ELSE killed
    /\ useRegistry' = registry
    /\ pc' = "scan"
    /\ UNCHANGED <<lockFile, envVars, parsed, listVars, ctxVars,
                   lockHeld, once, cleanupErr, sigVars, childVars, exitCode,
                   edited, cleanupCount, sigSeen, exitVia, launched>>

\* one call of the walk callback
WalkStep(excluded, overridden, how, mkdirOk) ==
    /\ pc = "scan"
    /\ queue # <<>>
    /\ \E r \in {WalkFile(WalkState(fs, createdFiles, createdDirs,
                                     skippedExisting, skippedExcluded,
                                     skippedRegistry, dirCache),
                           Head(queue), useRegistry, excluded, overridden,
                           parsed.DryRun, how, mkdirOk)} :
           /\ fs' = r.fs
           /\ createdFiles' = r.createdFiles
           /\ createdDirs' = r.createdDirs
           /\ skippedExisting' = r.skippedExisting
           /\ skippedExcluded' = r.skippedExcluded
           /\ skippedRegistry' = r.skippedRegistry
           /\ dirCache' = r.dirCache
           /\ fsErr' = (fsErr \/ r.err)
           /\ refused' = refused
           /\ pc' = IF r.err THEN "abort" ELSE "scan"
    /\ queue' = Tail(queue)
    /\ UNCHANGED <<doc, exclude, manifest, lockFile, envVars, parsed,
                   useRegistry, runID, ctxVars, lockHeld, once, cleanupErr,
                   sigVars, childVars, exitCode, startFs, edited, cleanupCount,
                   sigSeen, exitVia, launched, killed>>


\* the body of cleanupStaging: cleanupStagedArtifacts on this run's lists
\* and contexts, the release of the lock included
CleanupBody(bad) ==
    /\ bad \in BadChoices(createdFiles, createdDirs)
    /\ \E r \in {cleanupStagedArtifacts(World, createdFiles, createdDirs,
                                       vscodeContext, gitContext, TRUE, bad)} :
           /\ fs' = r.fs /\ doc' = r.doc /\ exclude' = r.exclude
           /\ manifest' = r.manifest
           /\ cleanupErr' = r.err
    /\ fsErr' = (fsErr \/ bad # {})
    /\ refused' = (refused \/ bad # {})
    /\ lockHeld' = unlock(lockHeld)
    /\ cleanupCount' = cleanupCount + 1

\* the walk or the manifest write failed: cleanupStaging, then exit status 1
AbortCleanup(bad) ==
    /\ pc = "abort"
    /\ CleanupBody(bad)
    /\ pc' = "exited"
    /\ exitCode' = 1
    /\ exitVia' = "error"
    /\ launched' = [launched EXCEPT !.staged = Len(createdFiles)]
    /\ ProcessEnds
    /\ UNCHANGED <<lockFile, envVars, parsed, useRegistry, runID, once,
                   childVars, startFs, edited, sigSeen, killed>>

\* after the walk: the settings patch, when config.VSCodeExclude asks for it
ApplyVSCode(vscodeExclude) ==
    /\ pc = "scan"
    /\ queue = <<>>
    /\ IF ~parsed.DryRun /\ vscodeExclude /\ Len(createdFiles) > 0
       THEN \E r \in {applyVSCodeExcludes(fs, doc, createdFiles, createdFiles,
                                           createdDirs)} :
                /\ fs' = r.fs /\ doc' = r.doc
                /\ createdFiles' = r.createdFiles
                /\ createdDirs' = r.createdDirs
                /\ vscodeContext' = IF r.err THEN vscodeContext ELSE r.ctx
       ELSE UNCHANGED <<fs, doc, createdFiles, createdDirs, vscodeContext>>
    /\ pc' = "git"
    /\ UNCHANGED <<exclude, manifest, lockFile, envVars, parsed, useRegistry,
                   runID, queue, skippedExisting, skippedExcluded,
                   skippedRegistry, dirCache, gitContext, lockHeld, once,
                   cleanupErr, sigVars, childVars, exitCode, startFs, edited,
                   fsErr, refused, cleanupCount, sigSeen, exitVia, launched,
                   killed>>

\* the ignore block, when the flags and the config ask for it and cwd is a
\* git work tree
ApplyGit(useGitignore) ==
    /\ pc = "git"
    /\ IF ~parsed.DryRun /\ useGitignore /\ Len(createdFiles) > 0 /\ gitDir
       THEN /\ exclude' = appendGitIgnoreBlock(exclude, runID,
                                               IgnorePaths(createdFiles))
            /\ gitContext' = GitContext(runID)
       ELSE UNCHANGED <<exclude, gitContext>>
    /\ pc' = "persist"
    /\ UNCHANGED <<fs, doc, manifest, lockFile, envVars, parsed, useRegistry,
                   runID, queue, listVars, vscodeContext, lockHeld, once,
                   cleanupErr, sigVars, childVars, exitCode, startFs, edited,
                   fsErr, refused, cleanupCount, sigSeen, exitVia, launched,
                   killed>>

\* variant of ShouldWriteManifest that writes a manifest in every run
ShouldWriteManifest_Always(dryRun, files) == TRUE

\* the guard of writeManifest in run: no dry run and something staged
ShouldWriteManifest(dryRun, files) == ~dryRun /\ Len(files) > 0

\* writeManifest when something was staged, then printSummary
Persist(writeOk) ==
    /\ pc = "persist"
    /\ IF ShouldWriteManifest(parsed.DryRun, createdFiles)
       THEN IF writeOk
            THEN /\ manifest' = Manifest(runID, createdFiles, createdDirs,
                                         gitContext, vscodeContext)
                 /\ pc' = "staged"
                 /\ UNCHANGED <<fsErr, refused, launched>>
            ELSE /\ pc' = "abort"
                 /\ fsErr' = TRUE
                 /\ launched' = [launched EXCEPT !.writeFailed = TRUE]
                 /\ UNCHANGED <<manifest, refused>>
       ELSE /\ pc' = "staged"
            /\ UNCHANGED <<manifest, fsErr, refused, launched>>
    /\ UNCHANGED <<fs, doc, exclude, lockFile, envVars, parsed, useRegistry,
                   runID, queue, listVars, ctxVars, lockHeld, once, cleanupErr,
                   sigVars, childVars, exitCode, startFs, edited, cleanupCount,
                   sigSeen, exitVia, killed>>

\* --dry-run: unlock and return nil
DryRunDone ==
    /\ pc = "staged"
    /\ parsed.DryRun
    /\ pc' = "exited"
    /\ exitCode' = 0
    /\ exitVia' = "dryrun"
    /\ lockHeld' = unlock(lockHeld)
    /\ ProcessEnds
    /\ UNCHANGED <<worldVars, lockFile, envVars, parsed, useRegistry, runID,
                   once, cleanupErr, childVars,
                   startFs, edited, fsErr, refused, cleanupCount, sigSeen,
                   launched, killed>>

\* signal.Notify, then the standalone wait or the signal goroutine and the
\* start of the command
Arm ==
    /\ pc = "staged"
    /\ ~parsed.DryRun
    /\ sigArmed' = TRUE
    /\ IF parsed.Command
       THEN pc' = "running" /\ sigPc' = "listen"
       ELSE pc' = "waiting" /\ sigPc' = "none"
    /\ launched' = [launched EXCEPT !.done = TRUE, !.manifest = manifest,
                                    !.staged = Len(createdFiles)]
    /\ UNCHANGED <<worldVars, lockFile, envVars, parsed, useRegistry, runID,
                   queue, listVars, ctxVars, lockHeld, once, cleanupErr,
                   sigPending, childVars, exitCode, startFs, edited, fsErr, refused,
                   cleanupCount, sigSeen, exitVia, killed>>


\* what a run that is killed now leaves behind; the record of an earlier
\* killed run stays when this one made nothing or its cleanup has begun
KilledRecord ==
    LET made == {q \in Paths : startFs[q] = Absent /\ fs[q] # Absent}
        keys == IF vscodeContext.on THEN Range(vscodeContext.AddedKeys) ELSE {}
        block == runID # "" /\ ContainsStart(exclude, runID)
    IN  IF cleanupCount = 0 /\ once = "idle" /\ (made # {} \/ keys # {} \/ block)
        THEN [made |-> made, RunID |-> runID, keys |-> keys,
              hadManifest |-> (manifest.st = "ok" /\ manifest.RunID = runID),
              edited |-> (edited \/ fsErr), recovered |-> FALSE]
        ELSE killed

\* the process is terminated from outside
Terminated ==
    /\ pc' = "killed"
    /\ exitCode' = -1
    /\ exitVia' = "killed"
    /\ killed' = KilledRecord
    /\ lockHeld' = FALSE
    /\ ProcessEnds
    /\ useRegistry' = FALSE /\ runID' = ""
    /\ once' = "idle" /\ cleanupErr' = FALSE
    /\ childCode' = 0 /\ childErr' = FALSE

\* SIGINT, SIGTERM or SIGHUP reaches the process: into sigCh while
\* signal.Notify is in force (dropped when the channel is full), the
\* platform's default action otherwise
Interrupt ==
    /\ Alive
    /\ sigSeen' = TRUE
    /\ IF sigArmed
       THEN /\ sigPending' = TRUE
            /\ UNCHANGED <<pc, exitCode, exitVia, killed, lockHeld, sigArmed,
                           sigPc, queue, listVars, ctxVars, useRegistry,
                           runID, once, cleanupErr, childVars>>
       ELSE Terminated
    /\ UNCHANGED <<worldVars, lockFile, envVars, parsed, startFs, edited, fsErr, refused, cleanupCount, launched>>

\* SIGKILL, power loss
Crash ==
    /\ Alive
    /\ Terminated
    /\ UNCHANGED <<worldVars, lockFile, envVars, parsed, startFs, edited, fsErr, refused, cleanupCount, sigSeen,
                   launched>>

\* someone else adds a file of their own under a directory of the tree
\* while the command runs or confik waits
HumanEdit ==
    /\ pc \in {"running", "waiting"}
    /\ fs[JoinCwd("d")] = IsDirNode
    /\ fs[JoinCwd("d/h")] = Absent
    /\ fs' = [fs EXCEPT ![JoinCwd("d/h")] = "user"]
    /\ edited' = TRUE
    /\ UNCHANGED <<doc, exclude, manifest, lockFile, envVars, pc, parsed,
                   useRegistry, runID, queue, listVars, ctxVars, lockHeld,
                   once, cleanupErr, sigVars, childVars, exitCode, startFs,
                   fsErr, refused, cleanupCount, sigSeen, exitVia, launched,
                   killed>>

\* the edits someone can make to settings.json: an exclusion key, a
\* top-level key of another kind, a comment
DocEdits == {"key", "other", "comment"}

\* someone else edits settings.json while the command runs or confik waits
HumanEditDoc(kind) ==
    /\ pc \in {"running", "waiting"}
    /\ ~edited
    /\ doc.st = "doc" /\ fs[settingsPath] = "json"
    /\ CASE kind = "key" -> /\ doc.excl = "obj"
                            /\ doc' = [doc EXCEPT !.keys = @ \cup {"h"}]
         [] kind = "other" -> /\ ~doc.other
                              /\ doc' = [doc EXCEPT !.other = TRUE]
         [] OTHER -> /\ ~containsJSONCComment(doc)
                     /\ doc' = [doc EXCEPT !.comments = {"root"}]
    /\ edited' = TRUE
    /\ UNCHANGED <<fs, exclude, manifest, lockFile, envVars, pc, parsed,
                   useRegistry, runID, queue, listVars, ctxVars, lockHeld,
                   once, cleanupErr, sigVars, childVars, exitCode, startFs,
                   fsErr, refused, cleanupCount, sigSeen, exitVia, launched,
                   killed>>

\* no .config: runCommandAndExit with a cleanup that does nothing
BareCommand(code, runErr) ==
    /\ pc = "bare"
    /\ runErr => code = 1
    /\ childCode' = code /\ childErr' = runErr
    /\ pc' = "exited"
    /\ exitCode' = ExitCodeAfter(TRUE, code, runErr, FALSE)
    /\ exitVia' = "command"
    /\ launched' = [launched EXCEPT !.done = TRUE]
    /\ ProcessEnds
    /\ UNCHANGED <<worldVars, lockFile, envVars, parsed, useRegistry, runID,
                   lockHeld, once, cleanupErr, startFs, edited,
                   fsErr, refused, cleanupCount, sigSeen, killed>>

\* runCommand returns: the command's exit code, or 1 and an error when it
\* could not be run
ChildExit(code, runErr) ==
    /\ pc = "running"
    /\ runErr => code = 1
    /\ childCode' = code /\ childErr' = runErr
    /\ pc' = "mainCall"
    /\ UNCHANGED <<worldVars, lockFile, envVars, parsed, useRegistry, runID,
                   queue, listVars, ctxVars, lockHeld, once, cleanupErr,
                   sigVars, exitCode, startFs, edited, fsErr, refused, cleanupCount,
                   sigSeen, exitVia, launched, killed>>

\* standalone mode: sig := <-sigCh, signal.Stop(sigCh)
StandaloneRecv ==
    /\ pc = "waiting"
    /\ sigPending
    /\ sigPending' = FALSE
    /\ sigArmed' = FALSE
    /\ pc' = "mainCall"
    /\ UNCHANGED <<worldVars, lockFile, envVars, parsed, useRegistry, runID,
                   queue, listVars, ctxVars, lockHeld, once, cleanupErr, sigPc,
                   childVars, exitCode, startFs, edited, fsErr, refused, cleanupCount,
                   sigSeen, exitVia, launched, killed>>

\* a guard that lets every caller in, and one that makes no caller wait
OnceEnters_Always(o) == TRUE
OnceBlocks_Never(o) == FALSE

\* sync.Once.Do(f): the caller runs f if no caller did before, and waits
\* while another caller is running f
OnceEnters(o) == o = "idle"
OnceBlocks(o) == o = "running"

\* the main goroutine calls cleanup(): cleanupOnce.Do lets the first caller
\* in, blocks a caller while the body runs, and returns at once afterwards
MainCallCleanup ==
    /\ pc = "mainCall"
    /\ ~OnceBlocks(once)
    /\ IF OnceEnters(once)
       THEN once' = "running" /\ pc' = "mainBody"
       ELSE once' = once /\ pc' = "mainAfter"
    /\ UNCHANGED <<worldVars, lockFile, envVars, parsed, useRegistry, runID,
                   queue, listVars, ctxVars, lockHeld, cleanupErr, sigVars,
                   childVars, exitCode, startFs, edited, fsErr, refused, cleanupCount,
                   sigSeen, exitVia, launched, killed>>

\* the body of cleanupOnce.Do, on the main goroutine
MainCleanupBody(bad) ==
    /\ pc = "mainBody"
    /\ CleanupBody(bad)
    /\ once' = "done"
    /\ pc' = "mainAfter"
    /\ UNCHANGED <<lockFile, envVars, parsed, useRegistry, runID, queue,
                   listVars, ctxVars, sigVars, childVars, exitCode, startFs,
                   edited, sigSeen, exitVia, launched, killed>>

\* the main goroutine ends the process: os.Exit(code), or main's os.Exit(1)
\* for a returned error, or status 0
MainExit ==
    /\ pc = "mainAfter"
    /\ pc' = "exited"
    /\ exitCode' = ExitCodeAfter(parsed.Command, childCode, childErr, cleanupErr)
    /\ exitVia' = IF parsed.Command THEN "command" ELSE "signal"
    /\ ProcessEnds
    /\ UNCHANGED <<worldVars, lockFile, envVars, parsed, useRegistry, runID,
                   lockHeld, once, cleanupErr, childVars,
                   startFs, edited, fsErr, refused, cleanupCount, sigSeen,
                   launched, killed>>


\* the signal goroutine: sig := <-sigCh, signal.Stop(sigCh)
SigRecv ==
    /\ sigPc = "listen"
    /\ sigPending
    /\ sigPending' = FALSE
    /\ sigArmed' = FALSE
    /\ sigPc' = "call"
    /\ UNCHANGED <<worldVars, lockFile, envVars, pc, parsed, useRegistry,
                   runID, queue, listVars, ctxVars, lockHeld, once, cleanupErr,
                   childVars, exitCode, startFs, edited, fsErr, refused, cleanupCount,
                   sigSeen, exitVia, launched, killed>>

\* the signal goroutine calls cleanup()
SigCallCleanup ==
    /\ sigPc = "call"
    /\ ~OnceBlocks(once)
    /\ IF OnceEnters(once)
       THEN once' = "running" /\ sigPc' = "body"
       ELSE once' = once /\ sigPc' = "after"
    /\ UNCHANGED <<worldVars, lockFile, envVars, pc, parsed, useRegistry,
                   runID, queue, listVars, ctxVars, lockHeld, cleanupErr,
                   sigArmed, sigPending, childVars, exitCode, startFs, edited,
                   fsErr, refused, cleanupCount, sigSeen, exitVia, launched,
                   killed>>

\* the body of cleanupOnce.Do, on the signal goroutine
SigCleanupBody(bad) ==
    /\ sigPc = "body"
    /\ CleanupBody(bad)
    /\ once' = "done"
    /\ sigPc' = "after"
    /\ UNCHANGED <<lockFile, envVars, pc, parsed, useRegistry, runID, queue,
                   listVars, ctxVars, sigArmed, sigPending, childVars,
                   exitCode, startFs, edited, sigSeen, exitVia,
                   launched, killed>>

\* the signal goroutine ends the process: os.Exit(1)
SigExit ==
    /\ sigPc = "after"
    /\ pc' = "exited"
    /\ exitCode' = 1
    /\ exitVia' = "signal"
    /\ ProcessEnds
    /\ UNCHANGED <<worldVars, lockFile, envVars, parsed, useRegistry, runID,
                   lockHeld, once, cleanupErr, childVars,
                   startFs, edited, fsErr, refused, cleanupCount, sigSeen,
                   launched, killed>>

CopyOutcomes == {"ok", "open", "copy"}

\* the removals the system can refuse: none, or those of one path
Refusals == {{}} \cup {{x} : x \in Paths}

\* what runCommand can return
ChildResults == {<<c, FALSE>> : c \in ExitCodes} \cup {<<1, TRUE>>}

Next ==
    \/ \E p \in ParsedArgs : Start(p)
    \/ \E openOk \in BOOLEAN : AcquireLock(openOk)
    \/ \E bad \in Refusals : CleanCmd(bad)
    \/ \E bad \in Refusals, registry \in BOOLEAN :
          PreRun(bad, registry)
    \/ \E excluded \in BOOLEAN, overridden \in BOOLEAN, how \in CopyOutcomes,
          mkdirOk \in BOOLEAN : WalkStep(excluded, overridden, how, mkdirOk)
    \/ \E bad \in Refusals : AbortCleanup(bad)
    \/ \E vscodeExclude \in BOOLEAN : ApplyVSCode(vscodeExclude)
    \/ \E useGitignore \in BOOLEAN : ApplyGit(useGitignore)
    \/ \E writeOk \in BOOLEAN : Persist(writeOk)
    \/ DryRunDone
    \/ Arm
    \/ Interrupt
    \/ Crash
    \/ HumanEdit
    \/ \E kind \in DocEdits : HumanEditDoc(kind)
    \/ \E r \in ChildResults : BareCommand(r[1], r[2])
    \/ \E r \in ChildResults : ChildExit(r[1], r[2])
    \/ StandaloneRecv
    \/ MainCallCleanup
    \/ \E bad \in Refusals : MainCleanupBody(bad)
    \/ MainExit
    \/ SigRecv
    \/ SigCallCleanup
    \/ \E bad \in Refusals : SigCleanupBody(bad)
    \/ SigExit

Spec == Init /\ [][Next]_vars


(***************************************************************************)
(* Kill and recovery: a first invocation that can be killed at any point,  *)
(* then a second one up to the end of its recovery pass.  The system       *)
(* refuses nothing here, and no signal is sent but the kill.               *)
(***************************************************************************)
InitRecovery == InitWorld /\ budget = 2 /\ configDir

\* the invocation that may be killed is under way
FirstRun == budget = 1

NextRecovery ==
    \/ \E p \in ParsedArgs : pc # "exited" /\ Start(p)
    \/ AcquireLock(TRUE)
    \/ CleanCmd({})
    \/ \E registry \in BOOLEAN : PreRun({}, registry)
    \/ \E excluded \in BOOLEAN : FirstRun /\ WalkStep(excluded, FALSE, "ok", TRUE)
    \/ \E vscodeExclude \in BOOLEAN : FirstRun /\ ApplyVSCode(vscodeExclude)
    \/ \E useGitignore \in BOOLEAN : FirstRun /\ ApplyGit(useGitignore)
    \/ FirstRun /\ Persist(TRUE)
    \/ FirstRun /\ DryRunDone
    \/ FirstRun /\ Arm
    \/ FirstRun /\ Crash
    \/ FirstRun /\ HumanEdit
    \/ FirstRun /\ ChildExit(0, FALSE)
    \/ FirstRun /\ MainCallCleanup
    \/ FirstRun /\ MainCleanupBody({})
    \/ FirstRun /\ MainExit

SpecRecovery == InitRecovery /\ [][NextRecovery]_vars

(***************************************************************************)
(* lock.go: several confik processes started on one .config race for the  *)
(* flock on .config/.confik.lock.                                          *)
(***************************************************************************)
\* what a process does between acquireLock and Unlock
GuardedSteps == <<"recover", "scan", "stage", "clean">>

\* tryLockFile, were the lock granted to every caller
tryLockFile_Always(owner) == TRUE

\* syscall.Flock(fd, LOCK_EX|LOCK_NB): true when nobody holds the lock
tryLockFile(owner) == owner = 0

\* the variables of the single-process model
runVars == <<fs, doc, exclude, manifest, lockFile, src, gitDir, configDir,
             budget, pc, parsed, useRegistry, runID, queue, createdFiles,
             createdDirs, skippedExisting, skippedExcluded, skippedRegistry,
             dirCache, vscodeContext, gitContext, lockHeld, once, cleanupErr,
             sigArmed, sigPending, sigPc, childCode, childErr, exitCode,
             startFs, edited, fsErr, refused, cleanupCount, sigSeen, exitVia,
             launched, killed, call>>

\* acquireLock after tryLockFile, were contention an error
AfterTry_FailOnContention(locked, err) ==
    IF err \/ ~locked THEN "failed" ELSE "meta"

\* acquireLock after tryLockFile: the error is returned, the lock is held,
\* or the notice is printed and lockFile is called
AfterTry(locked, err) ==
    IF err THEN "failed" ELSE IF locked THEN "meta" ELSE "blocked"

\* a process is started (again)
LStart(p) ==
    /\ lpc[p] \in {"released", "dead", "failed"}
    /\ lpc' = [lpc EXCEPT ![p] = "start"]
    /\ notice' = [notice EXCEPT ![p] = FALSE]
    /\ guarded' = [guarded EXCEPT ![p] = 0]
    /\ primErr' = [primErr EXCEPT ![p] = FALSE]
    /\ UNCHANGED <<flock, runVars>>

\* acquireLock: os.OpenFile(lockPath, O_CREATE|O_RDWR)
LOpen(p, openOk) ==
    /\ lpc[p] = "start"
    /\ lpc' = [lpc EXCEPT ![p] = IF openOk THEN "try" ELSE "failed"]
    /\ primErr' = [primErr EXCEPT ![p] = ~openOk]
    /\ UNCHANGED <<flock, notice, guarded, runVars>>

\* acquireLock: tryLockFile, and the notice when the lock is taken
LTryLock(p, primOk) ==
    /\ lpc[p] = "try"
    /\ \E locked \in {primOk /\ tryLockFile(flock)} :
         /\ lpc' = [lpc EXCEPT ![p] = AfterTry(locked, ~primOk)]
         /\ flock' = IF locked THEN p ELSE flock
         /\ notice' = [notice EXCEPT ![p] = lpc'[p] = "blocked"]
    /\ primErr' = [primErr EXCEPT ![p] = ~primOk]
    /\ UNCHANGED <<guarded, runVars>>

\* acquireLock: lockFile returns once the lock is free, or with an error
LLockFile(p, primOk) ==
    /\ lpc[p] = "blocked"
    /\ IF primOk
       THEN /\ flock = 0
            /\ flock' = p
            /\ lpc' = [lpc EXCEPT ![p] = "meta"]
       ELSE /\ lpc' = [lpc EXCEPT ![p] = "failed"]
            /\ UNCHANGED flock
    /\ primErr' = [primErr EXCEPT ![p] = ~primOk]
    /\ UNCHANGED <<notice, guarded, runVars>>

\* acquireLock: writeLockMetadata, return
LWriteMeta(p) ==
    /\ lpc[p] = "meta"
    /\ lpc' = [lpc EXCEPT ![p] = "held"]
    /\ UNCHANGED <<flock, notice, guarded, primErr, runVars>>

\* one of the steps run() takes with the lock
LGuarded(p) ==
    /\ lpc[p] = "held"
    /\ guarded[p] < Len(GuardedSteps)
    /\ guarded' = [guarded EXCEPT ![p] = @ + 1]
    /\ UNCHANGED <<flock, lpc, notice, primErr, runVars>>

\* Unlock: unlockFile, Close
LUnlock(p) ==
    /\ lpc[p] = "held"
    /\ flock' = IF flock = p THEN 0 ELSE flock
    /\ lpc' = [lpc EXCEPT ![p] = "released"]
    /\ UNCHANGED <<notice, guarded, primErr, runVars>>

\* the process is killed: the kernel closes its descriptors
LKill(p) ==
    /\ lpc[p] \in {"try", "blocked", "meta", "held"}
    /\ flock' = IF flock = p THEN 0 ELSE flock
    /\ lpc' = [lpc EXCEPT ![p] = "dead"]
    /\ UNCHANGED <<notice, guarded, primErr, runVars>>

NextLock ==
    \E p \in Procs :
        \/ LStart(p)
        \/ \E openOk \in BOOLEAN : LOpen(p, openOk)
        \/ \E primOk \in BOOLEAN : LTryLock(p, primOk)
        \/ \E primOk \in BOOLEAN : LLockFile(p, primOk)
        \/ LWriteMeta(p)
        \/ LGuarded(p)
        \/ LUnlock(p)
        \/ LKill(p)

InitLock ==
    /\ Init
    /\ configDir
    /\ fs = [q \in Paths |-> Absent]

SpecLock == InitLock /\ [][NextLock]_vars

\* fair scheduling of the racing processes: a process that holds the lock
\* goes on to its Unlock, and a flock call that can be granted again and
\* again is granted
FairLock ==
    \A p \in Procs :
        /\ WF_vars(LWriteMeta(p))
        /\ WF_vars(LUnlock(p))
        /\ SF_vars(LLockFile(p, TRUE))

SpecLockFair == InitLock /\ [][NextLock]_vars /\ FairLock


(***************************************************************************)
(* The ignore-file editor on its own: appendGitIgnoreBlock,                *)
(* removeGitIgnoreBlock and removeAllGitIgnoreBlocks called on ignore      *)
(* files of every shape.                                                   *)
(***************************************************************************)
\* how many pieces the ignore files the calls start from are made of
MaxSegments == 3

\* how many calls are made on one file
MaxCalls == 2

\* the run ids of the calls
IgIDs == {"r1", "r2"}

\* the run ids of the blocks that are in the files: those of the calls and
\* one that begins with the first of them
IgBlockIDs == IgIDs \cup {"r10"}

\* a well-formed tagged block
IgBlock(id) == <<<<"start", id>>, <<"text", "/a">>, <<"end", id>>>>

\* the pieces: a line of the user's, a blank line, a block of either run
\* id, a block of a run id that begins with the first one, a start sentinel
\* with nothing after it, an end sentinel on its own
IgSegments ==
    {<<<<"text", "u">>>>, <<EmptyLine>>, <<<<"start", "r1">>>>, <<<<"end", "r1">>>>}
    \cup {IgBlock(id) : id \in IgBlockIDs}

RECURSIVE Flatten(_)
Flatten(segs) == IF segs = <<>> THEN <<>> ELSE Head(segs) \o Flatten(Tail(segs))

\* the content made of the pieces, with or without a final newline
IgContent(segs, nl) ==
    LET body == Flatten(segs) IN
    IF body = <<>> THEN IF nl THEN <<EmptyLine, EmptyLine>> ELSE EmptyContent
    ELSE IF nl THEN Append(body, EmptyLine) ELSE body

\* the ignore files: none, or any of those contents
IgFiles ==
    {NoFile} \cup
    {IgContent(segs, nl) :
        segs \in UNION {[1..k -> IgSegments] : k \in 0..MaxSegments},
        nl \in BOOLEAN}

\* everything but the ignore file and the record of the call
igFrame == <<fs, doc, manifest, lockFile, src, gitDir, configDir, budget,
             flock, lpc, notice, guarded, primErr, pc, parsed, useRegistry,
             runID, queue, createdFiles, createdDirs, skippedExisting,
             skippedExcluded, skippedRegistry, dirCache, vscodeContext,
             gitContext, lockHeld, once, cleanupErr, sigArmed, sigPending,
             sigPc, childCode, childErr, exitCode, startFs, edited, fsErr,
             refused, cleanupCount, sigSeen, exitVia, launched, killed>>

\* the record of a call made on the file as it is
Called(op, id, paths, wrote) ==
    [op |-> op, runID |-> id, paths |-> paths, before |-> exclude,
     same |-> (call.op = op /\ call.runID = id /\ call.paths = paths),
     n |-> call.n + 1, wrote |-> wrote, err |-> FALSE, ok |-> FALSE]

\* appendGitIgnoreBlock(gitDir, id, paths)
IgAppend(id, paths) ==
    /\ call.n < MaxCalls
    /\ exclude' = appendGitIgnoreBlock(exclude, id, paths)
    /\ call' = Called("append", id, paths, appendWrites(exclude, id))
    /\ UNCHANGED igFrame

\* removeGitIgnoreBlock(excludePath, id)
IgRemove(id) ==
    /\ call.n < MaxCalls
    /\ exclude' = removeGitIgnoreBlock(exclude, id)
    /\ call' = Called("remove", id, <<>>, removeWrites(exclude, id))
    /\ UNCHANGED igFrame

\* removeAllGitIgnoreBlocks(excludePath)
IgRemoveAll ==
    /\ call.n < MaxCalls
    /\ exclude' = removeAllGitIgnoreBlocks(exclude)
    /\ call' = Called("removeAll", "", <<>>, removeWrites(exclude, ""))
    /\ UNCHANGED igFrame

\* cleanLeftovers(cwd, true, quiet) with no manifest in .config
IgForceClean ==
    /\ call.n < MaxCalls
    /\ manifest.st = "none"
    /\ \E r \in {cleanLeftovers(World, TRUE, gitDir, {})} :
         /\ fs' = r.fs /\ doc' = r.doc /\ exclude' = r.exclude
         /\ manifest' = r.manifest
         /\ call' = [Called("force", "", <<>>, removeWrites(exclude, ""))
                        EXCEPT !.err = r.err]
    /\ UNCHANGED <<lockFile, src, gitDir, configDir, budget, flock, lpc,
                   notice, guarded, primErr, pc, parsed, useRegistry, runID,
                   queue, createdFiles, createdDirs, skippedExisting,
                   skippedExcluded, skippedRegistry, dirCache, vscodeContext,
                   gitContext, lockHeld, once, cleanupErr, sigArmed,
                   sigPending, sigPc, childCode, childErr, exitCode, startFs,
                   edited, fsErr, refused, cleanupCount, sigSeen, exitVia,
                   launched, killed>>

NextIgnore ==
    \/ \E id \in IgIDs : IgAppend(id, <<"/a">>)
    \/ \E id \in IgIDs : IgRemove(id)
    \/ IgRemoveAll
    \/ IgForceClean

\* what a run that was killed before it wrote its manifest leaves under the
\* destination root: its copies and the directories it made for them
LeftoverTree ==
    [q \in Paths |-> IF q \in {JoinCwd("a"), JoinCwd("d/e/c")} THEN "copy"
                     ELSE IF q \in {JoinCwd("d"), JoinCwd("d/e")} THEN IsDirNode
                     ELSE Absent]

InitIgnore ==
    /\ configDir = TRUE /\ gitDir = TRUE
    /\ src = SrcFiles
    /\ budget = 0
    /\ fs \in {[q \in Paths |-> Absent], LeftoverTree}
    /\ doc = NoDoc
    /\ exclude \in IgFiles
    /\ NoProcess

SpecIgnore == InitIgnore /\ [][NextIgnore]_vars


(***************************************************************************)
(* The settings patcher on its own: applyVSCodeExcludes on a settings      *)
(* document of any shape, edits by a human, then removeVSCodeExcludes      *)
(* with the context the patch returned.                                    *)
(***************************************************************************)
\* how many edits a human makes between the patch and its reversal
MaxEdits == 1

\* the exclusion keys a document can hold before the patch: one that is
\* also the name of a staged file, one that is not
DocKeys == {"a", "k"}

\* the places a comment can be in a document of the given shape
CommentPlaces(excl, keys) ==
    {"root"} \cup (IF excl = "none" THEN {} ELSE {"files.exclude"}) \cup keys

\* the parsable documents with the given files.exclude member
DocsOf(excl, keys) ==
    {[st |-> "doc", excl |-> excl, keys |-> keys, other |-> o, comments |-> c] :
        o \in BOOLEAN, c \in SUBSET CommentPlaces(excl, keys)}

\* the settings documents the patcher can find: none, an unparsable one,
\* and every shape of a parsable one
SettingsDocs ==
    {NoDoc, [NoDoc EXCEPT !.st = "bad"]} \cup DocsOf("none", {})
    \cup DocsOf("nonobj", {}) \cup UNION {DocsOf("obj", k) : k \in SUBSET DocKeys}

\* the lists of staged files the patch is asked to hide
StagedLists == {<<JoinCwd("a")>>, <<JoinCwd("a"), JoinCwd("d/e/c")>>}

\* the edits: an exclusion key, a top-level key of another kind, or a
\* comment at one of the places
SettingsEdits == {"key", "other"} \cup CommentPlaces("obj", DocKeys \cup {"d/e/c", "h"})

\* everything but the tree, the document, the patch context, the created
\* lists and the record of the calls
stFrame == <<exclude, manifest, lockFile, src, gitDir, configDir, budget,
             flock, lpc, notice, guarded, primErr, pc, parsed, useRegistry,
             runID, queue, skippedExisting, skippedExcluded, skippedRegistry,
             dirCache, gitContext, lockHeld, once, cleanupErr, sigArmed,
             sigPending, sigPc, childCode, childErr, exitCode, startFs,
             edited, fsErr, refused, cleanupCount, sigSeen, exitVia,
             launched, killed>>

\* applyVSCodeExcludes(cwd, staged, &createdFiles, &createdDirs)
StApply(staged) ==
    /\ call.op = "none"
    /\ \E r \in {applyVSCodeExcludes(fs, doc, staged, createdFiles, createdDirs)} :
         /\ fs' = r.fs /\ doc' = r.doc
         /\ createdFiles' = r.createdFiles /\ createdDirs' = r.createdDirs
         /\ vscodeContext' = IF r.err THEN NoVS ELSE r.ctx
    /\ call' = [NoCall EXCEPT !.op = "apply", !.paths = staged,
                             !.before = [orig |-> doc, mid |-> NoDoc],
                             !.err = applyVSCodeExcludes(fs, doc, staged, createdFiles, createdDirs).err]
    /\ UNCHANGED stFrame

\* a human edits the document between the patch and its reversal
StEdit(kind) ==
    /\ call.op \in {"apply", "edit"}
    /\ call.n < MaxEdits
    /\ doc.st = "doc"
    /\ CASE kind = "key" -> /\ doc.excl = "obj" /\ "h" \notin doc.keys
                            /\ doc' = [doc EXCEPT !.keys = @ \cup {"h"}]
         [] kind = "other" -> /\ ~doc.other
                              /\ doc' = [doc EXCEPT !.other = TRUE]
         [] OTHER -> /\ kind \in CommentPlaces(doc.excl, doc.keys) \ doc.comments
                     /\ doc' = [doc EXCEPT !.comments = @ \cup {kind}]
    /\ call' = [call EXCEPT !.op = "edit", !.n = @ + 1]
    /\ UNCHANGED <<fs, createdFiles, createdDirs, vscodeContext, stFrame>>

\* removeVSCodeExcludes(ctx)
StReverse ==
    /\ call.op \in {"apply", "edit"}
    /\ \E bad \in {{}, {settingsPath}} :
         \E r \in {removeVSCodeExcludes(fs, doc, vscodeContext, bad)} :
             fs' = r.fs /\ doc' = r.doc
    /\ call' = [call EXCEPT !.op = "reverse", !.before.mid = doc]
    /\ UNCHANGED <<createdFiles, createdDirs, vscodeContext, stFrame>>

NextSettings ==
    \/ \E staged \in StagedLists : StApply(staged)
    \/ \E kind \in SettingsEdits : StEdit(kind)
    \/ StReverse

InitSettings ==
    /\ configDir = TRUE /\ gitDir = TRUE
    /\ src = SrcFiles
    /\ budget = 0
    /\ exclude = NoFile
    /\ doc \in SettingsDocs
    /\ \E d \in {Absent, IsDirNode} :
         /\ doc # NoDoc => d = IsDirNode
         /\ fs = [q \in Paths |-> IF q = settingsDir THEN d
                                   ELSE IF q = settingsPath /\ doc # NoDoc THEN "json"
                                   ELSE Absent]
    /\ NoProcess

SpecSettings == InitSettings /\ [][NextSettings]_vars


(***************************************************************************)
(* ensureDirWithCache on its own: calls with one createdDirs list and one  *)
(* cache, on every tree a run can start from.                              *)
(***************************************************************************)
\* everything but the tree, the created-directories list, the cache and the
\* record of the calls
enFrame == <<doc, exclude, manifest, lockFile, src, gitDir, configDir, budget,
             flock, lpc, notice, guarded, primErr, pc, parsed, useRegistry,
             runID, queue, createdFiles, skippedExisting, skippedExcluded,
             skippedRegistry, vscodeContext, gitContext, lockHeld, once,
             cleanupErr, sigArmed, sigPending, sigPc, childCode, childErr,
             exitCode, startFs, edited, fsErr, refused, cleanupCount, sigSeen,
             exitVia, launched, killed>>

\* ensureDirWithCache(dirPath, &createdDirs, dryRun, dirCache)
EnsureCall(dirPath, dryRun, mkdirOk) ==
    /\ call.n < MaxCalls
    /\ \E e \in {ensureDirWithCache(fs, dirPath, createdDirs, dryRun, dirCache, mkdirOk)} :
         /\ fs' = e.fs /\ createdDirs' = e.createdDirs /\ dirCache' = e.cache
         /\ call' = [NoCall EXCEPT
                        !.op = "ensure", !.paths = <<dirPath>>,
                        !.before = [fs |-> fs, createdDirs |-> createdDirs,
                                    dryRun |-> dryRun, ok |-> call.ok,
                                    err |-> call.err],
                        !.same = (call.op = "ensure" /\ call.paths = <<dirPath>>
                                  /\ call.before.dryRun = dryRun),
                        !.n = call.n + 1, !.ok = e.ok, !.err = e.err]
    /\ UNCHANGED enFrame

NextEnsure ==
    \E dirPath \in Paths, dryRun \in BOOLEAN, mkdirOk \in BOOLEAN :
        EnsureCall(dirPath, dryRun, mkdirOk)

InitEnsure ==
    /\ configDir = TRUE /\ gitDir = TRUE
    /\ src = SrcFiles
    /\ budget = 0
    /\ exclude = NoFile
    /\ fs \in UserTrees
    /\ doc = IF fs[settingsPath] = Absent THEN NoDoc ELSE CHOOSE d \in UserDocs : TRUE
    /\ NoProcess

SpecEnsure == InitEnsure /\ [][NextEnsure]_vars


(***************************************************************************)
(* The walk over .config on its own: the callback applied to the entries   *)
(* in walk order, with every answer of the pattern matcher and of the      *)
(* file system, for each setting of the registry flag and config entry.    *)
(***************************************************************************)
\* everything the walk leaves alone
wkFrame == <<doc, exclude, manifest, lockFile, src, gitDir, configDir, budget,
             flock, lpc, notice, guarded, primErr, pc, runID, vscodeContext,
             gitContext, lockHeld, once, cleanupErr, sigArmed, sigPending,
             sigPc, childCode, childErr, exitCode, startFs, edited, fsErr,
             refused, cleanupCount, sigSeen, exitVia, launched, killed>>

\* the files filepath.WalkDir finds in .config, in its order: the lock file
\* and the config document, the source files, and the manifest when the
\* cleanup of an earlier run retained it
WalkEntries ==
    SelectSeq(WalkOrder,
              LAMBDA n : \/ n \in {lockFilename, configFilename}
                         \/ n = manifestFilename /\ manifest.st # "none"
                         \/ n \in src)

\* parseArgs, loadConfig and useRegistry; the walk is about to start
WalkBegin(dryRun, flagRegistry, configRegistry) ==
    /\ call.op = "none"
    /\ parsed' = [Clean |-> FALSE, DryRun |-> dryRun, Command |-> TRUE]
    /\ useRegistry' = UseRegistry(flagRegistry, configRegistry)
    /\ queue' = WalkEntries
    /\ call' = [NoCall EXCEPT !.op = "begin",
                             !.before = [flag |-> flagRegistry, config |-> configRegistry]]
    /\ UNCHANGED <<fs, createdFiles, createdDirs, skippedExisting,
                   skippedExcluded, skippedRegistry, dirCache, wkFrame>>

\* one call of the walk callback, its inputs and the lists before it recorded
WalkCall(excluded, overridden, how, mkdirOk) ==
    /\ call.op \in {"begin", "walk"}
    /\ ~call.err
    /\ queue # <<>>
    /\ \E r \in {WalkFile(WalkState(fs, createdFiles, createdDirs,
                                     skippedExisting, skippedExcluded,
                                     skippedRegistry, dirCache),
                           Head(queue), useRegistry, excluded, overridden,
                           parsed.DryRun, how, mkdirOk)} :
           /\ fs' = r.fs
           /\ createdFiles' = r.createdFiles
           /\ createdDirs' = r.createdDirs
           /\ skippedExisting' = r.skippedExisting
           /\ skippedExcluded' = r.skippedExcluded
           /\ skippedRegistry' = r.skippedRegistry
           /\ dirCache' = r.dirCache
           /\ call' = [NoCall EXCEPT
                          !.op = "walk", !.paths = <<Head(queue)>>,
                          !.before = [flag |-> call.before.flag,
                                      config |-> call.before.config,
                                      excluded |-> excluded,
                                      overridden |-> overridden,
                                      how |-> how, mkdirOk |-> mkdirOk,
                                      st |-> WalkState(fs, createdFiles, createdDirs,
                                                       skippedExisting, skippedExcluded,
                                                       skippedRegistry, dirCache)],
                          !.n = call.n + 1, !.err = r.err]
    /\ queue' = Tail(queue)
    /\ UNCHANGED <<parsed, useRegistry, wkFrame>>

NextWalk ==
    \/ \E dryRun \in BOOLEAN, flagRegistry \in BOOLEAN, configRegistry \in BOOLEAN :
           WalkBegin(dryRun, flagRegistry, configRegistry)
    \/ \E excluded \in BOOLEAN, overridden \in BOOLEAN, how \in CopyOutcomes, mkdirOk \in BOOLEAN :
           WalkCall(excluded, overridden, how, mkdirOk)

\* the trees the walk starts from: the user's, and one where a file of the
\* user's has the name of a directory the walk needs
WalkTrees ==
    UserTrees \cup
    {[q \in Paths |-> IF q = JoinCwd("d") THEN IsDirNode
                      ELSE IF q = JoinCwd("d/e") THEN "user"
                      ELSE Absent]}

\* the manifest the walk finds: none, or the one the cleanup of an earlier
\* run retained for a file it could not remove
WalkManifests ==
    {NoManifest, Manifest("r1", <<JoinCwd("d/h")>>, <<>>, NoGit, NoVS)}

InitWalk ==
    /\ configDir = TRUE /\ gitDir = TRUE
    /\ src = SrcFiles
    /\ budget = 0
    /\ exclude = NoFile
    /\ fs \in WalkTrees
    /\ doc = IF fs[settingsPath] = Absent THEN NoDoc ELSE CHOOSE d \in UserDocs : TRUE
    /\ manifest \in WalkManifests
    /\ NoneRunning

SpecWalk == InitWalk /\ [][NextWalk]_vars


(***************************************************************************)
(* Properties.                                                             *)
(***************************************************************************)
\* nothing that was absent when the run started scanning is there now
NothingLeft == \A q \in Paths : startFs[q] = Absent => fs[q] = Absent

\* the run's ignore block, its manifest and its copies are gone, the
\* sources of a .config that held any are all there
AllReversed ==
    /\ NothingLeft
    /\ runID \notin BlockIDs(exclude)
    /\ manifest.st = "none"
    /\ src # {} => src = SrcFiles

\* C1: in command mode with a .config directory, once the command has
\* exited (whatever its code) and cleanup has run, with no filesystem error
\* and no human edit, nothing the run created is left in the destination
\* tree, its ignore block is gone, the manifest is absent and the sources
\* are all still there.
C1_CommandRunLeavesNothing ==
    ( /\ configDir /\ parsed.Command /\ ~parsed.DryRun
      /\ pc = "mainAfter" \/ (pc = "exited" /\ exitVia = "command")
      /\ ~fsErr /\ ~edited )
    => AllReversed

C1_Witness ==
    /\ pc = "exited" /\ exitVia = "command" /\ configDir
    /\ ~fsErr /\ ~edited
    /\ childCode = 7
    /\ launched.staged >= 3
    /\ launched.manifest.CreatedDirs # <<>>
    /\ launched.manifest.Gitignore.on
    /\ launched.manifest.VSCode.on

\* the walk callback is called for the source file rel while its
\* destination is there
ExaminesExisting(rel) ==
    /\ pc = "scan" /\ queue # <<>> /\ Head(queue) = rel
    /\ Stat(fs, JoinCwd(rel)) \in {"file", "dir"}
    /\ pc' \in {"scan", "abort"}

\* C2 as stated: a source file whose destination exists when staging
\* examines it keeps the destination's bytes and is reported under
\* skipped-existing, whatever the exclude and registry settings.
C2_SkippedExistingAlways ==
    [][\A rel \in SrcFiles : ExaminesExisting(rel) =>
          (/\ fs'[JoinCwd(rel)] = fs[JoinCwd(rel)]
           /\ skippedExisting' = Append(skippedExisting, rel))]_vars

\* C2, amended: the destination's bytes are unchanged and the file is not
\* staged; it is reported under skipped-existing unless it matched an
\* exclude pattern (reported as excluded) or, with the registry in force, a
\* registry pattern (reported as registry-skipped).
C2_ExistingNeverOverwritten ==
    [][\A rel \in SrcFiles : ExaminesExisting(rel) =>
          (/\ fs' = fs
           /\ createdFiles' = createdFiles /\ createdDirs' = createdDirs
           /\ \/ /\ skippedExisting' = Append(skippedExisting, rel)
                 /\ UNCHANGED <<skippedExcluded, skippedRegistry>>
              \/ /\ skippedExcluded' = Append(skippedExcluded, rel)
                 /\ UNCHANGED <<skippedExisting, skippedRegistry>>
              \/ /\ useRegistry /\ rel \in RegistryListed
                 /\ skippedRegistry' = Append(skippedRegistry, rel)
                 /\ UNCHANGED <<skippedExisting, skippedExcluded>>)]_vars

C2_Witness ==
    /\ pc = "scan"
    /\ startFs[JoinCwd("a")] = "user" /\ fs[JoinCwd("a")] = "user"
    /\ skippedExisting = <<"a">>
    /\ queue = <<configFilename, "d/e/c">>

\* C3 as stated: from the scan to the end of the cleanup, a file or
\* directory that was there before the run is never recorded in
\* createdFiles or createdDirs, never overwritten and never deleted (here
\* for the runs in which the system refuses nothing).
C3_PreexistingUntouched ==
    [][(pc \in {"scan", "abort", "git", "persist", "staged", "running",
                "waiting", "mainCall", "mainBody", "mainAfter"} /\ ~fsErr') =>
          \A q \in Paths : startFs[q] # Absent =>
              (/\ fs'[q] = fs[q]
               /\ q \notin Range(createdFiles') \cup Range(createdDirs'))]_vars

\* C4: when at least one file was staged, the manifest on disk holds the
\* run id, the created files and directories and both contexts at the
\* moment the command is started or the standalone wait begins; after a
\* failed manifest write neither happens.
C4_ManifestBeforeLaunch ==
    [][((pc = "staged" /\ pc' \in {"running", "waiting"} /\ Len(createdFiles) > 0)
          => (/\ manifest.st = "ok"
              /\ manifest.RunID = runID
              /\ manifest.CreatedFiles = toRelativeList(createdFiles)
              /\ manifest.CreatedDirs = toRelativeList(createdDirs)
              /\ manifest.Gitignore = gitContext
              /\ manifest.VSCode = vscodeContext))
       /\ (launched.writeFailed => pc' \notin {"running", "waiting"})]_vars

C4_Witness ==
    /\ pc = "running"
    /\ Len(createdFiles) >= 3 /\ createdDirs # <<>>
    /\ gitContext.on /\ vscodeContext.on
    /\ manifest.st = "ok"


\* a recovery pass goes over what a killed run left
RecoveryPass == ~killed.recovered /\ killed'.recovered

\* what the killed run made is gone after the step
KilledRunReversed ==
    /\ \A q \in killed.made : fs'[q] = Absent
    /\ killed.RunID \notin BlockIDs(exclude')
    /\ doc'.keys \cap killed.keys = {}

\* C5 as stated: a run killed after it made at least one artifact and
\* before its cleanup ran; the next recovery pass (--clean, or the pre-run
\* recovery of the next invocation) removes all the killed run made.
C5_RecoveryRemovesAll ==
    [][(RecoveryPass /\ ~killed.edited) => KilledRunReversed]_vars

\* C5, amended: a run killed after its manifest was written and before its
\* cleanup began; the next recovery pass, with no filesystem error and no
\* human edit, removes every file, directory, ignore block and settings
\* entry the killed run made, and the manifest.
C5_RecoveryRemovesRecorded ==
    [][(RecoveryPass /\ ~killed.edited /\ killed.hadManifest)
          => (KilledRunReversed /\ manifest'.st = "none")]_vars

C5_Witness ==
    /\ killed.recovered /\ killed.hadManifest /\ ~killed.edited
    /\ JoinCwd("d/e/c") \in killed.made /\ settingsPath \in killed.made
    /\ killed.keys # {}
    /\ killed.RunID \notin BlockIDs(exclude)
    /\ \A q \in killed.made : fs[q] = Absent
    /\ pc = "scan"

\* C6: when no signal reaches the process, its exit code is the command's:
\* the command's own code when that is not 0, and 0 when the command ended
\* with 0 and cleanup succeeded; with a .config directory the process ends
\* only after the cleanup has run.  Without .config there is nothing to
\* clean.
C6_ExitCodeIsCommands ==
    (pc = "exited" /\ exitVia = "command" /\ ~sigSeen) =>
        /\ ~childErr =>
              /\ childCode # 0 => exitCode = childCode
              /\ (childCode = 0 /\ ~cleanupErr) => exitCode = 0
        /\ configDir => (once = "done" /\ cleanupCount = 1 /\ ~lockHeld)

C6_Witness ==
    /\ pc = "exited" /\ exitVia = "command" /\ ~sigSeen
    /\ configDir /\ launched.staged > 0
    /\ childCode = 7 /\ exitCode = 7
    /\ once = "done"

\* C7: whichever of the command's exit and the signal calls cleanup first,
\* and when both do, the cleanup body runs exactly once in a run that got
\* as far as starting the command or the standalone wait.
C7_CleanupExactlyOnce ==
    /\ cleanupCount <= 1
    /\ (launched.done /\ configDir /\ pc # "killed")
           => ((cleanupCount = 1) = (once = "done"))
    /\ (pc = "exited" /\ launched.done /\ configDir) => cleanupCount = 1

C7_Witness ==
    /\ pc = "mainAfter" /\ sigPc = "after"
    /\ cleanupCount = 1 /\ once = "done"

\* C8: a signal came while the command ran or confik waited, and the
\* process ended (no filesystem error, no human edit): then every copy,
\* created directory and the ignore block of the run are gone, and so is
\* the manifest, and the sources are all there.
C8_InterruptReverses ==
    (pc = "exited" /\ configDir /\ launched.done /\ sigSeen
       /\ ~fsErr /\ ~edited)
    => AllReversed

C8_Witness ==
    /\ pc = "exited" /\ exitVia = "signal" /\ parsed.Command
    /\ configDir /\ sigSeen /\ ~fsErr /\ ~edited
    /\ launched.staged >= 2
    /\ launched.manifest.CreatedDirs # <<>>
    /\ launched.manifest.Gitignore.on

Holding == {"meta", "held"}

\* C10: at most one process is between acquireLock and Unlock, and it is
\* the one holding the flock; a process that found the lock taken has
\* printed the waiting notice and has done none of the guarded steps.
C10_OneHolder ==
    /\ \A p \in Procs, q \in Procs :
           (p # q /\ lpc[p] \in Holding) => lpc[q] \notin Holding
    /\ \A p \in Procs : lpc[p] \in Holding => flock = p
    /\ \A p \in Procs : lpc[p] = "blocked" => (notice[p] /\ guarded[p] = 0)
    /\ \A p \in Procs : guarded[p] > 0 => lpc[p] \in {"held", "released", "dead"}

C10_Witness ==
    /\ lpc[1] = "held" /\ guarded[1] = 2
    /\ lpc[2] = "blocked" /\ notice[2]

\* C11: a process that took the lock and ended by itself (through --clean,
\* dry-run, a fatal staging error, a failed manifest write, the command's
\* exit, the standalone interrupt or the signal goroutine) called unlock
\* before it ended: lockHeld is false in every exited state.
C11_LockReleasedOnEveryExit ==
    (pc = "exited" /\ lockFile) => ~lockHeld

C11_Witness ==
    /\ pc = "exited" /\ exitVia = "error" /\ lockFile
    /\ launched.writeFailed /\ ~lockHeld

C13_CopyFailureRollsBack ==
    [][(pc = "abort" /\ ~launched.writeFailed /\ pc' = "exited" /\ ~refused')
         => (/\ exitCode' # 0
             /\ ~launched'.done
             /\ \A i \in 1..Len(createdFiles) : fs'[createdFiles[i]] = Absent
             /\ manifest'.st = "none"
             /\ ~lockHeld')]_vars

C13_Witness ==
    /\ pc = "exited" /\ exitVia = "error" /\ ~launched.writeFailed
    /\ ~refused /\ ~parsed.DryRun
    /\ launched.staged = 1
    /\ fs[JoinCwd("d/e/c")] = "partial"
    /\ fs[JoinCwd("a")] = Absent /\ startFs[JoinCwd("a")] = Absent

\* the paths the run recorded as created that are there after the step
RecordedLeft ==
    {p \in Range(createdFiles) \cup Range(createdDirs) : fs'[p] # Absent}

\* the cleanup body of the run is executed in this step, with the manifest
\* on disk
CleanupWithManifest == cleanupCount' = cleanupCount + 1 /\ manifest.st = "ok"

\* C14: the cleanup of a run deletes the manifest exactly when it returns
\* no error and none of the recorded paths is left on disk; when a
\* recorded path is left it returns an error and the manifest stays as it
\* was.
C14_ManifestDeletedIffAllReversed ==
    [][CleanupWithManifest =>
         (/\ (manifest'.st = "none") <=> (~cleanupErr' /\ RecordedLeft = {})
          /\ (RecordedLeft # {}) => (cleanupErr' /\ manifest' = manifest))]_vars

\* C15: no step of a --dry-run invocation changes the tree under the
\* working directory, the settings document, the ignore file or the
\* manifest, and none starts the command; when no operation failed the
\* invocation ends with status 0 and the lock released.
C15_DryRunTouchesNothing ==
    [][(parsed.DryRun /\ Alive)
         => (/\ fs' = fs /\ doc' = doc /\ exclude' = exclude
             /\ manifest' = manifest
             /\ ~launched'.done
             /\ (pc' = "exited" /\ ~fsErr') => (exitCode' = 0 /\ ~lockHeld'))]_vars


\* C16: appendGitIgnoreBlock called a second time with the run id and the
\* paths of the call before it leaves the ignore file exactly as that call
\* left it: it does not reach its write, and the file it names exists.
C16_SecondAppendIsNoOp ==
    (call.op = "append" /\ call.same) =>
        (exclude = call.before /\ ~call.wrote /\ exclude # NoFile)

\* the second of two identical appends has returned, on a file the first
\* one had to write its block to
C16_Witness ==
    /\ call.op = "append" /\ call.same /\ call.n = 2
    /\ \E i \in 1..Len(exclude) : exclude[i] = <<"start", call.runID>>
    /\ exclude[Len(exclude) - 1] = <<"end", call.runID>>

\* the lines i..j of c are a well-formed block of run id: its start
\* sentinel, lines that are no sentinels, its end sentinel
IsBlockAt(c, id, i, j) ==
    /\ 1 <= i /\ i < j /\ j <= Len(c)
    /\ c[i] = <<"start", id>>
    /\ c[j] = <<"end", id>>
    /\ \A k \in (i + 1)..(j - 1) : c[k][1] = "text"

\* every sentinel of c belongs to a well-formed block, and no run id has two
WellFormedBlocks(c) ==
    /\ \A i \in 1..Len(c) : c[i][1] = "start" =>
          /\ \E j \in 1..Len(c) : IsBlockAt(c, c[i][2], i, j)
          /\ \A k \in 1..Len(c) : c[k] = c[i] => k = i
    /\ \A j \in 1..Len(c) : c[j][1] = "end" =>
          \E i \in 1..Len(c) : IsBlockAt(c, c[j][2], i, j)

\* c without its lines i..j
WithoutLines(c, i, j) == SubSeq(c, 1, i - 1) \o SubSeq(c, j + 1, Len(c))

\* C17: in a file whose sentinels all belong to well-formed blocks, two of
\* them of distinct run ids A and B, removing A's block removes the lines
\* from A's start sentinel to A's end sentinel and nothing else: B's block
\* and every other line stay, in order, and a file that ended with a
\* newline still ends with one.
C17_RemovesExactlyTheBlock ==
    \A A \in IgIDs, B \in IgIDs :
        \A i \in 1..Len(call.before), j \in 1..Len(call.before) :
            ( /\ call.op = "remove" /\ call.runID = A /\ A # B
              /\ WellFormedBlocks(call.before)
              /\ IsBlockAt(call.before, A, i, j)
              /\ \E k \in 1..Len(call.before) : call.before[k] = <<"start", B>> )
            => /\ exclude = WithoutLines(call.before, i, j)
               /\ EndsWithNewline(call.before) => EndsWithNewline(exclude)

\* a block was removed from between a line of the user's and the block of
\* the other run id, in a file that ended with a newline
C17_Witness ==
    /\ call.op = "remove" /\ call.runID = "r1"
    /\ WellFormedBlocks(call.before)
    /\ EndsWithNewline(call.before)
    /\ \E i \in 1..Len(call.before) : call.before[i] = <<"start", "r1">>
    /\ \E i \in 1..Len(call.before) : call.before[i] = <<"text", "u">>
    /\ exclude # call.before
    /\ \E i \in 1..Len(exclude) : IsBlockAt(exclude, "r2", i, i + 2)

\* C18: after removeGitIgnoreBlocks(content, runID) with a run id the result
\* holds neither the start nor the end sentinel of that run id, and after
\* the removal of every block (run id "") it holds no start sentinel.
C18_NoSentinelSurvives ==
    /\ call.op = "remove" =>
          \A i \in 1..Len(exclude) :
              exclude[i] \notin {<<"start", call.runID>>, <<"end", call.runID>>}
    /\ call.op = "removeAll" =>
          \A i \in 1..Len(exclude) : exclude[i][1] # "start"

\* C19: removeGitIgnoreBlock on a missing ignore file leaves it missing, and
\* on a file with no block of the given run id leaves its content as it is
\* without reaching its write.
C19_RemoveOfNothingTouchesNothing ==
    ( /\ call.op = "remove"
      /\ \A i \in 1..Len(call.before) : call.before[i] # <<"start", call.runID>> )
    => (exclude = call.before /\ ~call.wrote)

\* a removal was asked of a file that holds a block, of the other run id only
C19_Witness ==
    /\ call.op = "remove" /\ call.runID = "r1"
    /\ \A i \in 1..Len(call.before) : call.before[i] # <<"start", "r1">>
    /\ \E i \in 1..Len(call.before) : IsBlockAt(call.before, "r2", i, i + 2)
    /\ exclude = call.before


\* C20: for a settings document that exists and parses, the patch followed
\* by its reversal removes the keys recorded in AddedKeys and nothing else:
\* the exclusion keys the document had before the patch, its other
\* top-level keys, the keys a human added in between and every comment the
\* document held when the reversal began are still there.
C20_ReversalRemovesOnlyAddedKeys ==
    (call.op = "reverse" /\ call.before.orig.st = "doc") =>
        /\ doc.st = "doc"
        /\ doc.keys = call.before.mid.keys \ Range(vscodeContext.AddedKeys)
        /\ call.before.orig.keys \subseteq doc.keys
        /\ (call.before.orig.other \/ call.before.mid.other) => doc.other
        /\ call.before.mid.comments \subseteq doc.comments


\* C21: removeVSCodeExcludes deletes the settings file only when the patch
\* context created the document, nothing is left in it once the run's keys
\* and the exclusion map the run created are removed, and it holds no
\* comment; the .vscode directory, then empty, goes with it.  In every other
\* case the settings file is still there after the call.
C21_SettingsDeletedOnlyWhenOwnedAndEmpty ==
    (call.op = "reverse" /\ call.before.mid.st # "absent" /\ fs[settingsPath] = Absent) =>
        /\ vscodeContext.SettingsCreated
        /\ call.before.mid.st = "doc"
        /\ call.before.mid.excl = "obj" /\ vscodeContext.FilesExcludeCreated
        /\ call.before.mid.keys \ Range(vscodeContext.AddedKeys) = {}
        /\ ~call.before.mid.other
        /\ call.before.mid.comments = {}
        /\ fs[settingsDir] = Absent

\* the reversal deleted the settings file the patch had created, and the
\* directory after it
C21_Witness ==
    /\ call.op = "reverse" /\ call.before.mid.st = "doc"
    /\ vscodeContext.SettingsCreated
    /\ fs[settingsPath] = Absent /\ fs[settingsDir] = Absent


\* C22: when the existing settings document does not parse, or its
\* files.exclude member is no object, applyVSCodeExcludes returns no context
\* and no error, leaves the document and the tree as they were and adds
\* nothing to createdFiles or createdDirs.
C22_UnusableSettingsLeftAlone ==
    ( /\ call.op = "apply"
      /\ \/ call.before.orig.st = "bad"
         \/ call.before.orig.st = "doc" /\ call.before.orig.excl = "nonobj" )
    => /\ vscodeContext = NoVS /\ ~call.err
       /\ doc = call.before.orig
       /\ fs[settingsPath] = "json" /\ fs[settingsDir] = IsDirNode
       /\ createdFiles = <<>> /\ createdDirs = <<>>

\* the patch was asked of a document whose files.exclude is no object, and
\* that holds a comment and another top-level key
C22_Witness ==
    /\ call.op = "apply" /\ call.paths # <<>>
    /\ call.before.orig.st = "doc" /\ call.before.orig.excl = "nonobj"
    /\ doc.other /\ doc.comments # {}


\* C23: a second call of ensureDirWithCache with the path, the dry-run flag,
\* the list and the cache of a first call that returned ok returns ok with no
\* error, leaves the tree as it is and appends nothing to the list.
C23_SecondEnsureCreatesNothing ==
    (call.op = "ensure" /\ call.same /\ call.before.ok) =>
        /\ call.ok /\ ~call.err
        /\ fs = call.before.fs
        /\ createdDirs = call.before.createdDirs

\* the second call came after a first one that had to create two directories
C23_Witness ==
    /\ call.op = "ensure" /\ call.same /\ call.before.ok /\ call.n = 2
    /\ call.paths = <<JoinCwd("d/e")>>
    /\ createdDirs = <<JoinCwd("d"), JoinCwd("d/e")>>

\* C23 as it is worded: ensureDirWithCache called twice on the same path
\* returns ok both times, whatever is at the path (calls that end with an
\* error of the file system set aside).
C23_EnsureTwiceAlwaysOk ==
    (call.op = "ensure" /\ call.same /\ ~call.err /\ ~call.before.err) =>
        (call.ok /\ call.before.ok)


\* the callback has just handled a file the registry lists
WalkedListed == call.op = "walk" /\ call.paths[1] \in RegistryListed

\* the registry is in force: neither --no-registry nor the config turned it off
RegistryOn == call.before.flag /\ call.before.config

\* C24: with the registry in force, a file it lists that no override
\* pattern re-admits is never copied, and is counted as registry-skipped
\* unless an exclude pattern claimed it first; a listed file that an override
\* re-admits, and any listed file when the registry is off, is handled exactly
\* as if the registry did not exist, and nothing is ever counted as
\* registry-skipped when the registry is off.
C24_RegistrySkipsUnlessOverridden ==
    /\ (WalkedListed /\ RegistryOn /\ ~call.before.overridden) =>
          /\ fs = call.before.st.fs
          /\ createdFiles = call.before.st.createdFiles
          /\ IF call.before.excluded
             THEN /\ skippedExcluded = Append(call.before.st.skippedExcluded, call.paths[1])
                  /\ skippedRegistry = call.before.st.skippedRegistry
             ELSE /\ skippedRegistry = Append(call.before.st.skippedRegistry, call.paths[1])
                  /\ skippedExcluded = call.before.st.skippedExcluded
    /\ (WalkedListed /\ (~RegistryOn \/ call.before.overridden)) =>
          /\ skippedRegistry = call.before.st.skippedRegistry
          /\ ( /\ ~call.before.excluded
               /\ ~exists(call.before.st.fs, JoinCwd(call.paths[1]))
               /\ call.before.how = "ok" )
             => /\ createdFiles = Append(call.before.st.createdFiles, JoinCwd(call.paths[1]))
                /\ ~parsed.DryRun => fs[JoinCwd(call.paths[1])] = "copy"
    /\ (call.op = "walk" /\ ~RegistryOn) => skippedRegistry = <<>>

\* a listed file was re-admitted by an override pattern and copied, with
\* the registry in force
C24_Witness ==
    /\ WalkedListed /\ RegistryOn /\ call.before.overridden
    /\ ~parsed.DryRun
    /\ fs[JoinCwd(call.paths[1])] = "copy"
    /\ skippedRegistry = <<>>

\* C24 as it is worded: with the registry in force, a listed file that no
\* override re-admits is never copied and is counted as registry-skipped.
C24_ListedAlwaysRegistrySkipped ==
    (WalkedListed /\ RegistryOn /\ ~call.before.overridden) =>
        /\ fs = call.before.st.fs
        /\ skippedRegistry = Append(call.before.st.skippedRegistry, call.paths[1])


\* C25: with no .config directory the process never creates or takes the
\* lock, never creates .config or a manifest and stages nothing; with a
\* command it runs the command and exits with its code (1 when the command
\* could not be run), and with no command or with --clean it exits 0; a
\* signal that arrives while the command runs ends the process as the
\* system's default handling does.
C25_NoConfigBypassesStaging ==
    /\ [](~configDir =>
            /\ ~lockFile /\ ~lockHeld
            /\ manifest.st = "none"
            /\ createdFiles = <<>> /\ createdDirs = <<>>
            /\ pc \in {"idle", "bare", "exited", "killed"}
            /\ pc = "exited" =>
                  IF parsed.Clean \/ ~parsed.Command
                  THEN exitCode = 0 /\ ~launched.done
                  ELSE /\ launched.done
                       /\ exitCode = IF childErr THEN 1 ELSE childCode)
    /\ [][~configDir => UNCHANGED <<fs, doc, exclude, manifest, lockFile, configDir>>]_vars

\* with no .config the command ran and its exit code came back
C25_Witness ==
    /\ ~configDir /\ pc = "exited"
    /\ parsed.Command /\ ~parsed.Clean
    /\ launched.done /\ ~childErr /\ exitCode = 7


\* line i of c lies within a well-formed block
InBlock(c, i) ==
    \E a \in 1..i, b \in i..Len(c) : \E id \in IgBlockIDs : IsBlockAt(c, id, a, b)

\* the lines of c from line i on that lie within no block, in order
RECURSIVE OutsideBlocks(_, _)
OutsideBlocks(c, i) ==
    IF i > Len(c) THEN <<>>
    ELSE (IF InBlock(c, i) THEN <<>> ELSE <<c[i]>>) \o OutsideBlocks(c, i + 1)

\* C26: cleanLeftovers forced with no manifest deletes nothing under the
\* destination root and writes no manifest; from an ignore file whose
\* sentinels all belong to well-formed blocks it removes the blocks of every
\* run id and keeps every other line in order (a file made of blocks only
\* and ending with a newline is left holding one empty line).
C26_ForcedCleanupStripsAllBlocksOnly ==
    call.op = "force" =>
        /\ fs = startFs
        /\ manifest.st = "none"
        /\ ~call.err
        /\ call.before = NoFile => exclude = NoFile
        /\ (call.before # NoFile /\ WellFormedBlocks(call.before)) =>
              /\ \A i \in 1..Len(exclude) : exclude[i][1] = "text"
              /\ \/ exclude = Joined(OutsideBlocks(call.before, 1))
                 \/ /\ OutsideBlocks(call.before, 1) = EmptyContent
                    /\ exclude = <<EmptyLine, EmptyLine>>

\* the forced cleanup found the copies of a killed run and an ignore file
\* with a line of the user's and the blocks of two run ids
C26_Witness ==
    /\ call.op = "force"
    /\ fs = LeftoverTree
    /\ \E i \in 1..Len(call.before) : IsBlockAt(call.before, "r1", i, i + 2)
    /\ \E i \in 1..Len(call.before) : IsBlockAt(call.before, "r2", i, i + 2)
    /\ \E i \in 1..Len(call.before) : call.before[i] = <<"text", "u">>
    /\ exclude = <<<<"text", "u">>>>


\* C27: a manifest is written only by a run that is no dry run and has
\* staged at least one file, and it is that run's; a run that staged nothing,
\* because .config holds no file to stage or every file was skipped, leaves
\* no manifest and, when its command ends with 0, exits 0.
C27_ManifestOnlyWhenStaged ==
    /\ [][(manifest' # manifest /\ manifest'.st # "none") =>
            /\ ~parsed.DryRun
            /\ Len(createdFiles) > 0
            /\ manifest'.RunID = runID
            /\ manifest'.CreatedFiles = toRelativeList(createdFiles)]_vars
    /\ []((pc = "exited" /\ exitVia = "command" /\ configDir /\ ~sigSeen
           /\ launched.staged = 0)
          => /\ manifest.st = "none"
             /\ launched.manifest.st = "none"
             /\ (childCode = 0 /\ ~childErr) => exitCode = 0)

\* a run over a .config with no file to stage ran its command and exited 0
C27_Witness ==
    /\ pc = "exited" /\ exitVia = "command" /\ configDir /\ ~sigSeen
    /\ src = {}
    /\ launched.done /\ launched.staged = 0
    /\ childCode = 0 /\ exitCode = 0
    /\ manifest.st = "none"


(***************************************************************************)
(* cleanLeftovers on its own: recovery passes over a manifest and a tree   *)
(* in which some, all or none of the recorded paths are still there.       *)
(***************************************************************************)
\* a manifest file that readManifest cannot parse
BadManifest == [NoManifest EXCEPT !.st = "bad"]

\* the manifests a killed run can have left, and none
ClManifests ==
    {NoManifest, BadManifest} \cup
    {[st |-> "ok", RunID |-> "r1", CreatedFiles |-> files,
      CreatedDirs |-> IF "d/e/c" \in Range(files) /\ dirs THEN <<"d", "d/e">>
                      ELSE <<>>,
      Gitignore |-> IF git THEN [on |-> TRUE, RunID |-> "r1"] ELSE NoGit,
      VSCode |-> NoVS] :
        files \in {<<"a">>, <<"d/e/c">>, <<"a", "d/e/c">>},
        dirs \in BOOLEAN, git \in BOOLEAN}

\* the trees the pass can find: each staged copy and each directory there or
\* gone, a file of the user's in d, or d itself replaced by a file
ClTrees ==
    {f \in [Paths -> {Absent, IsDirNode, "user", "copy"}] :
        /\ WellFormed(f)
        /\ f[JoinCwd("a")] \in {Absent, "copy"}
        /\ f[JoinCwd("d")] \in {Absent, IsDirNode, "user"}
        /\ f[JoinCwd("d/e")] \in {Absent, IsDirNode}
        /\ f[JoinCwd("d/e/c")] \in {Absent, "copy"}
        /\ f[JoinCwd("d/h")] \in {Absent, "user"}
        /\ f[settingsDir] = Absent /\ f[settingsPath] = Absent}

\* the ignore files the pass can find: none, the user's lines, the block of
\* the manifest's run, the block of a run that left no manifest
ClExcludes ==
    {NoFile,
     IgContent(<<<<<<"text", "u">>>>>>, TRUE),
     IgContent(<<<<<<"text", "u">>>>, IgBlock("r1")>>, TRUE),
     IgContent(<<IgBlock("r1"), IgBlock("r2")>>, TRUE),
     IgContent(<<IgBlock("r2")>>, TRUE)}

\* every path the manifest records gives not-exist
RecordedGone(f, m) ==
    /\ m.st = "ok"
    /\ \A p \in Range(fromRelativeList(m.CreatedFiles))
             \cup Range(fromRelativeList(m.CreatedDirs)) : Stat(f, p) = "enoent"

\* none of the paths the manifest records is there
RecordedMissing(f, m) ==
    /\ m.st = "ok"
    /\ \A p \in Range(fromRelativeList(m.CreatedFiles))
             \cup Range(fromRelativeList(m.CreatedDirs)) : ~exists(f, p)

clFrame == <<lockFile, src, gitDir, configDir, budget, flock, lpc,
             notice, guarded, primErr, pc, parsed, useRegistry, runID,
             queue, createdFiles, createdDirs, skippedExisting,
             skippedExcluded, skippedRegistry, dirCache, vscodeContext,
             gitContext, lockHeld, once, cleanupErr, sigArmed,
             sigPending, sigPc, childCode, childErr, exitCode, startFs,
             edited, fsErr, refused, cleanupCount, sigSeen, exitVia,
             launched, killed>>

\* cleanLeftovers(cwd, force, quiet): force is --clean, otherwise it is the
\* pre-run recovery, which run makes only when the manifest file is there
CleanCall(force, bad) ==
    /\ call.n < MaxCalls
    /\ ~force => manifest.st # "none"
    /\ \E r \in {cleanLeftovers(World, force, gitDir, bad)} :
         /\ fs' = r.fs /\ doc' = r.doc /\ exclude' = r.exclude
         /\ manifest' = r.manifest
         /\ call' = [op |-> "clean", runID |-> manifest.RunID, paths |-> <<>>,
                     before |-> [world |-> World, force |-> force, bad |-> bad,
                                 gone |-> RecordedGone(fs, manifest),
                                 missing |-> RecordedMissing(fs, manifest),
                                 prev |-> IF call.n = 0
                                          THEN [force |-> FALSE, err |-> TRUE,
                                                gone |-> FALSE, had |-> FALSE]
                                          ELSE [force |-> call.before.force,
                                                err |-> call.err,
                                                gone |-> call.before.gone,
                                                had |-> call.before.world.manifest.st = "ok"]],
                     same |-> FALSE, n |-> call.n + 1, wrote |-> FALSE,
                     err |-> r.err, ok |-> ~r.err]
    /\ UNCHANGED clFrame

\* the removals the system can refuse during a pass
ClRefusals == {{}, {JoinCwd("a")}, {JoinCwd("d/e")}, {manifestPath}}

NextClean == \E force \in BOOLEAN, bad \in ClRefusals : CleanCall(force, bad)

InitClean ==
    /\ configDir = TRUE /\ gitDir = TRUE
    /\ src = SrcFiles
    /\ budget = 0
    /\ fs \in ClTrees
    /\ doc = NoDoc
    /\ exclude \in ClExcludes
    /\ manifest \in ClManifests
    /\ NoneRunning

SpecClean == InitClean /\ [][NextClean]_vars

\* a second --clean that follows a --clean which returned no error
SecondClean ==
    /\ call.op = "clean" /\ call.n >= 2
    /\ call.before.force /\ call.before.prev.force /\ ~call.before.prev.err

RetainedManifest ==
    Manifest("r1", <<JoinCwd("a"), JoinCwd("d/e/c")>>,
             <<JoinCwd("d"), JoinCwd("d/e")>>, NoGit, NoVS)

\* what the earlier run had staged when its cleanup began, with or without a
\* file someone else put into a directory the run had made
StagedWorlds ==
    {[fs |-> [LeftoverTree EXCEPT ![JoinCwd("d/h")] = h], doc |-> NoDoc,
      exclude |-> x, manifest |-> RetainedManifest] :
        h \in {Absent, "user"}, x \in UserExcludes \ {NoFile}}

\* what its cleanup passes left when they were incomplete
RetainedWorlds ==
    {r \in {cleanLeftovers(w, force, TRUE, bad) :
               w \in StagedWorlds, force \in BOOLEAN,
               bad \in {{}, {JoinCwd("a")}}} :
        r.err /\ r.manifest = RetainedManifest}

\* some path the manifest records is still there
RecordedRemain(f, m) ==
    \E p \in Range(fromRelativeList(m.CreatedFiles))
             \cup Range(fromRelativeList(m.CreatedDirs)) : exists(f, p)

InitRetained ==
    /\ configDir = TRUE /\ gitDir = TRUE
    /\ src = SrcFiles
    /\ budget = 1
    /\ \E r \in RetainedWorlds :
          /\ fs = r.fs /\ doc = r.doc /\ exclude = r.exclude
          /\ manifest = r.manifest
    /\ NoneRunning

NextRetained ==
    \/ \E p \in ParsedArgs : Start(p)
    \/ \E openOk \in BOOLEAN : AcquireLock(openOk)
    \/ \E bad \in Refusals : CleanCmd(bad)
    \/ \E bad \in Refusals, registry \in BOOLEAN : PreRun(bad, registry)
    \/ \E excluded \in BOOLEAN, how \in CopyOutcomes :
          WalkStep(excluded, FALSE, how, TRUE)
    \/ \E bad \in Refusals : AbortCleanup(bad)
    \/ ApplyVSCode(FALSE)
    \/ \E useGitignore \in BOOLEAN : ApplyGit(useGitignore)
    \/ \E writeOk \in BOOLEAN : Persist(writeOk)
    \/ DryRunDone
    \/ Arm
    \/ \E r \in ChildResults : ChildExit(r[1], r[2])
    \/ MainCallCleanup
    \/ \E bad \in Refusals : MainCleanupBody(bad)
    \/ MainExit

SpecRetained == InitRetained /\ [][NextRetained]_vars

\* C29: a manifest that an incomplete cleanup kept stays on disk, as it is,
\* while a path it records is still there: no step of a later invocation
\* replaces or deletes it unless every path it records is gone after the
\* step.
C29_RetainedManifestStays ==
    [][(manifest = RetainedManifest /\ RecordedRemain(fs', RetainedManifest))
          => manifest' = manifest]_vars


\* C30: once a run that was aborted by a failed copy has rolled back and
\* ended, no truncated destination file is under the working directory.
C30_NoPartialAfterRollback ==
    (pc = "exited" /\ exitVia = "error") =>
        \A p \in Paths : fs[p] # "partial"


\* the callback has just handled a file that no pattern skipped and whose
\* destination was not there, and ensureDirWithCache did not prepare the
\* directory of the destination
DirNotPrepared ==
    /\ call.op = "walk"
    /\ call.paths[1] \notin Reserved
    /\ ~call.before.excluded
    /\ ~RegistrySkips(useRegistry, call.paths[1], call.before.overridden)
    /\ ~exists(call.before.st.fs, JoinCwd(call.paths[1]))
    /\ ~ensureDirWithCache(call.before.st.fs, Dir(JoinCwd(call.paths[1])),
                           call.before.st.createdDirs, parsed.DryRun,
                           call.before.st.dirCache, call.before.mkdirOk).ok

\* C31: when the directory of a file's destination cannot be prepared (an
\* ancestor is there and is no directory, or making the chain fails), the
\* file is counted as skipped-existing, nothing is copied and the walk goes
\* on without an error.
C31_UnpreparedDirIsSkipped ==
    DirNotPrepared =>
        /\ ~call.err
        /\ skippedExisting = Append(call.before.st.skippedExisting, call.paths[1])
        /\ createdFiles = call.before.st.createdFiles
        /\ fs = call.before.st.fs


(***************************************************************************)
(* cleanupStagedArtifacts step by step: one action per statement that      *)
(* touches the disk or the lock, in the order of the function's text.  The *)
(* record call holds the position in the function (before.stage, the files *)
(* and directories still to visit), its locals failures and remaining, and *)
(* in paths the attempts made so far.                                      *)
(***************************************************************************)
\* what a run can have staged when its cleanup begins: one file or both,
\* the directories made for them, with or without a file someone else put
\* into one of them, with or without the settings patch and the ignore block
StepFiles == {<<JoinCwd("a")>>, <<JoinCwd("a"), JoinCwd("d/e/c")>>}

StepDirsOf(files) ==
    IF JoinCwd("d/e/c") \in Range(files) THEN <<JoinCwd("d"), JoinCwd("d/e")>>
    ELSE <<>>

StepTree(files, h) ==
    [q \in Paths |-> IF q \in Range(files) THEN "copy"
                     ELSE IF q \in Range(StepDirsOf(files)) THEN IsDirNode
                     ELSE IF q = JoinCwd("d/h") /\ h /\ StepDirsOf(files) # <<>>
                          THEN "user"
                     ELSE Absent]

\* the removals the system refuses during the cleanup
StepRefusals ==
    {{}, {JoinCwd("a")}, {JoinCwd("d/e")}, {JoinCwd("a"), JoinCwd("d/e")},
     {manifestPath}}

\* the position in cleanupStagedArtifacts and its locals
StepAt(stage, files, dirs, failures, remaining, bad, start) ==
    [stage |-> stage, files |-> files, dirs |-> dirs, failures |-> failures,
     remaining |-> remaining, bad |-> bad, start |-> start]

stepFrame == <<lockFile, src, gitDir, configDir, budget, flock, lpc, notice,
               guarded, primErr, pc, parsed, useRegistry, runID, queue,
               createdFiles, createdDirs, skippedExisting, skippedExcluded,
               skippedRegistry, dirCache, vscodeContext, gitContext, once,
               sigArmed, sigPending, sigPc, childCode, childErr, exitCode,
               startFs, edited, fsErr, refused, cleanupCount, sigSeen,
               exitVia, launched, killed>>

InitSteps ==
    /\ configDir = TRUE /\ gitDir = TRUE /\ src = SrcFiles /\ budget = 0
    /\ flock = 0
    /\ lpc = [p \in Procs |-> "start"]
    /\ notice = [p \in Procs |-> FALSE]
    /\ primErr = [p \in Procs |-> FALSE]
    /\ guarded = [p \in Procs |-> 0]
    /\ lockFile = TRUE /\ lockHeld = TRUE
    /\ pc = "mainBody"
    /\ parsed = [Clean |-> FALSE, DryRun |-> FALSE, Command |-> TRUE]
    /\ useRegistry = FALSE
    /\ runID = "r1"
    /\ queue = <<>>
    /\ skippedExisting = <<>> /\ skippedExcluded = <<>> /\ skippedRegistry = <<>>
    /\ dirCache = {}
    /\ once = "running"
    /\ cleanupErr = FALSE
    /\ sigArmed = FALSE /\ sigPending = FALSE /\ sigPc = "none"
    /\ childCode = 0 /\ childErr = FALSE
    /\ exitCode = 0
    /\ edited = FALSE /\ fsErr = FALSE /\ refused = FALSE
    /\ cleanupCount = 0
    /\ sigSeen = FALSE
    /\ exitVia = "none"
    /\ launched = NoLaunch
    /\ killed = NoKilled
    /\ startFs = [q \in Paths |-> Absent]
    /\ \E files \in StepFiles, h \in BOOLEAN, vs \in BOOLEAN, git \in BOOLEAN,
          written \in BOOLEAN, bad \in StepRefusals :
         LET v == IF vs
                  THEN applyVSCodeExcludes(StepTree(files, FALSE), NoDoc, files,
                                           files, StepDirsOf(files))
                  ELSE [ctx |-> NoVS, err |-> FALSE, fs |-> StepTree(files, FALSE),
                        doc |-> NoDoc, createdFiles |-> files,
                        createdDirs |-> StepDirsOf(files)]
             tree == [q \in Paths |-> IF StepTree(files, h)[q] # Absent
                                      THEN StepTree(files, h)[q] ELSE v.fs[q]]
             user == <<<<"text", "u">>, EmptyLine>>
         IN  /\ fs = tree
             /\ doc = v.doc
             /\ createdFiles = v.createdFiles
             /\ createdDirs = v.createdDirs
             /\ vscodeContext = v.ctx
             /\ gitContext = IF git THEN GitContext("r1") ELSE NoGit
             /\ exclude = IF git
                          THEN appendGitIgnoreBlock(user, "r1", IgnorePaths(files))
                          ELSE user
             /\ manifest = IF written
                           THEN Manifest("r1", v.createdFiles, v.createdDirs,
                                         IF git THEN GitContext("r1") ELSE NoGit,
                                         v.ctx)
                           ELSE NoManifest
             /\ call = [NoCall EXCEPT
                          !.op = "cleanup", !.runID = "r1",
                          !.before = StepAt("settings", v.createdFiles,
                                            CleanupDirOrder(v.createdDirs), 0, {},
                                            bad,
                                            [fs |-> tree, doc |-> v.doc,
                                             exclude |-> IF git
                                                 THEN appendGitIgnoreBlock(user, "r1",
                                                          IgnorePaths(files))
                                                 ELSE user,
                                             manifest |-> IF written
                                                 THEN Manifest("r1", v.createdFiles,
                                                          v.createdDirs,
                                                          IF git THEN GitContext("r1")
                                                          ELSE NoGit, v.ctx)
                                                 ELSE NoManifest])]

\* if vscodeContext != nil { removeVSCodeExcludes(vscodeContext) }
StepSettings ==
    /\ call.op = "cleanup" /\ call.before.stage = "settings"
    /\ \E r \in {removeVSCodeExcludes(fs, doc, vscodeContext, call.before.bad)} :
          fs' = r.fs /\ doc' = r.doc
    /\ call' = [call EXCEPT
                  !.before.stage = "loops",
                  !.paths = IF vscodeContext.on THEN Append(@, <<"settings", "">>)
                            ELSE @]
    /\ UNCHANGED <<exclude, manifest, lockHeld, cleanupErr, stepFrame>>

\* one round of the loop over createdFiles
StepFile ==
    /\ call.op = "cleanup" /\ call.before.stage = "loops"
    /\ call.before.files # <<>>
    /\ LET filePath == Head(call.before.files)
           settingsCreatedPath == IF vscodeContext.on /\ vscodeContext.SettingsCreated
                                  THEN settingsPath ELSE ""
           r == osRemove(fs, filePath, call.before.bad)
       IN  IF settingsCreatedPath # "" /\ filePath = settingsCreatedPath
           THEN /\ fs' = fs
                /\ call' = [call EXCEPT !.before.files = Tail(@)]
           ELSE /\ fs' = r.fs
                /\ call' = [call EXCEPT
                              !.before.files = Tail(@),
                              !.before.failures = @ + (IF r.err THEN 1 ELSE 0),
                              !.before.remaining =
                                  @ \cup (IF exists(r.fs, filePath) THEN {filePath}
                                          ELSE {}),
                              !.paths = Append(@, <<"file", filePath>>)]
    /\ UNCHANGED <<doc, exclude, manifest, lockHeld, cleanupErr, stepFrame>>

\* one round of the loop over the sorted directories
StepDir ==
    /\ call.op = "cleanup" /\ call.before.stage = "loops"
    /\ call.before.files = <<>>
    /\ call.before.dirs # <<>>
    /\ LET dirPath == Head(call.before.dirs)
           r == removeDirIfEmptyChecked(fs, dirPath, call.before.bad)
       IN  /\ fs' = r.fs
           /\ call' = [call EXCEPT
                         !.before.dirs = Tail(@),
                         !.before.failures = @ + (IF r.err THEN 1 ELSE 0),
                         !.before.remaining =
                             @ \cup (IF ~r.err /\ ~r.removed /\ exists(r.fs, dirPath)
                                     THEN {dirPath} ELSE {}),
                         !.paths = Append(@, <<"dir", dirPath>>)]
    /\ UNCHANGED <<doc, exclude, manifest, lockHeld, cleanupErr, stepFrame>>

\* if gitContext != nil { removeGitIgnoreBlock(...) }
StepIgnore ==
    /\ call.op = "cleanup" /\ call.before.stage = "loops"
    /\ call.before.files = <<>> /\ call.before.dirs = <<>>
    /\ exclude' = IF gitContext.on
                  THEN removeGitIgnoreBlock(exclude, gitContext.RunID)
                  ELSE exclude
    /\ call' = [call EXCEPT
                  !.before.stage = "manifest",
                  !.paths = IF gitContext.on THEN Append(@, <<"ignore", "">>)
                            ELSE @]
    /\ UNCHANGED <<fs, doc, manifest, lockHeld, cleanupErr, stepFrame>>

\* if shouldRemoveManifest { os.Remove(manifestPath) }
StepManifest ==
    /\ call.op = "cleanup" /\ call.before.stage = "manifest"
    /\ LET shouldRemoveManifest ==
               call.before.failures = 0 /\ call.before.remaining = {}
           stays == manifest.st # "none" /\ manifestPath \in call.before.bad
       IN  IF shouldRemoveManifest
           THEN /\ manifest' = IF stays THEN manifest ELSE NoManifest
                /\ call' = [call EXCEPT
                              !.before.stage = "unlock",
                              !.before.failures = @ + (IF stays THEN 1 ELSE 0),
                              !.before.remaining =
                                  @ \cup (IF stays THEN {manifestPath} ELSE {}),
                              !.paths = Append(@, <<"manifest", "">>)]
           ELSE /\ manifest' = manifest
                /\ call' = [call EXCEPT !.before.stage = "unlock"]
    /\ UNCHANGED <<fs, doc, exclude, lockHeld, cleanupErr, stepFrame>>

\* if unlock != nil { unlock() }, then the error that is returned
StepUnlock ==
    /\ call.op = "cleanup" /\ call.before.stage = "unlock"
    /\ lockHeld' = unlock(lockHeld)
    /\ cleanupErr' = (call.before.failures # 0 \/ call.before.remaining # {})
    /\ call' = [call EXCEPT
                  !.before.stage = "done",
                  !.paths = Append(@, <<"unlock", "">>),
                  !.err = (call.before.failures # 0 \/ call.before.remaining # {})]
    /\ UNCHANGED <<fs, doc, exclude, manifest, stepFrame>>

NextSteps ==
    \/ StepSettings
    \/ StepFile
    \/ StepDir
    \/ StepIgnore
    \/ StepManifest
    \/ StepUnlock

SpecSteps == InitSteps /\ [][NextSteps]_vars

\* the steps, taken one by one, end where cleanupStagedArtifacts ends
StepsAgree ==
    (call.op = "cleanup" /\ call.before.stage = "done") =>
        LET r == cleanupStagedArtifacts(call.before.start, createdFiles, createdDirs,
                                        vscodeContext, gitContext, TRUE,
                                        call.before.bad)
        IN  /\ fs = r.fs /\ doc = r.doc /\ exclude = r.exclude
            /\ manifest = r.manifest
            /\ cleanupErr = r.err
            /\ ~lockHeld

\* the place of a kind of attempt in the order of the cleanup
StepRank(kind) ==
    CASE kind = "settings" -> 1
      [] kind = "file" -> 2
      [] kind = "dir" -> 3
      [] kind = "ignore" -> 4
      [] kind = "manifest" -> 5
      [] OTHER -> 6

\* directory a is above path p
IsAncestor(a, p) == a # p /\ (Dir(p) = a \/ Dir(Dir(p)) = a)

\* C32: the attempts of a cleanup come in this order: the settings
\* reversal, the recorded files, the recorded directories, the ignore block,
\* the manifest, the lock; and no recorded directory is attempted after a
\* recorded directory above it.
C32_CleanupOrder ==
    call.op = "cleanup" =>
        \A i \in 1..Len(call.paths), j \in 1..Len(call.paths) :
            i < j =>
               /\ StepRank(call.paths[i][1]) <= StepRank(call.paths[j][1])
               /\ (call.paths[i][1] = "dir" /\ call.paths[j][1] = "dir")
                     => ~IsAncestor(call.paths[i][2], call.paths[j][2])

\* a cleanup that made every kind of attempt, on two files and on a
\* directory and the directory above it
C32_Witness ==
    /\ call.op = "cleanup" /\ call.before.stage = "done"
    /\ \A kind \in {"settings", "file", "dir", "ignore", "manifest", "unlock"} :
          \E i \in 1..Len(call.paths) : call.paths[i][1] = kind
    /\ \E i \in 1..Len(call.paths) : call.paths[i] = <<"dir", JoinCwd("d")>>
    /\ \E i \in 1..Len(call.paths) : call.paths[i] = <<"dir", JoinCwd("d/e")>>
    /\ \E i \in 1..Len(call.paths) : call.paths[i] = <<"file", JoinCwd("d/e/c")>>


\* the attempt of this kind on this path is in the log
Attempted(kind, path) ==
    \E i \in 1..Len(call.paths) : call.paths[i] = <<kind, path>>

\* the recorded files the loop removes itself: all but a settings file the
\* run created
LoopFiles ==
    {p \in Range(createdFiles) :
        ~(vscodeContext.on /\ vscodeContext.SettingsCreated /\ p = settingsPath)}

\* C33: a cleanup that has returned has attempted every recorded file, every
\* recorded directory, the ignore block when there is one, and the release
\* of the lock, whatever failed on the way; its count of failures is the
\* number of refused removals, its set of remaining paths holds every
\* recorded file and directory that is still there (but for a directory
\* whose removal was refused, which is among the failures), and it returns
\* an error exactly when one of the two is not empty.
C33_CleanupNeverShortCircuits ==
    (call.op = "cleanup" /\ call.before.stage = "done") =>
        /\ \A p \in LoopFiles : Attempted("file", p)
        /\ \A p \in Range(createdDirs) : Attempted("dir", p)
        /\ gitContext.on => (Attempted("ignore", "") /\ runID \notin BlockIDs(exclude))
        /\ Attempted("unlock", "") /\ ~lockHeld
        /\ call.before.failures =
              Cardinality(call.before.bad \cap (LoopFiles \cup Range(createdDirs)))
              + (IF Attempted("manifest", "") /\ manifest.st # "none" THEN 1 ELSE 0)
        /\ \A p \in LoopFiles : exists(fs, p) => p \in call.before.remaining
        /\ \A p \in Range(createdDirs) :
              exists(fs, p) => (p \in call.before.remaining \/ p \in call.before.bad)
        /\ call.err = (call.before.failures # 0 \/ call.before.remaining # {})
        /\ cleanupErr = call.err

\* the removal of the first file and that of a directory were refused, and
\* the cleanup went on to the other file, the directories, the ignore
\* block and the lock, and reported two failures and the paths that remain
C33_Witness ==
    /\ call.op = "cleanup" /\ call.before.stage = "done"
    /\ call.before.bad = {JoinCwd("a"), JoinCwd("d/e")}
    /\ call.before.failures = 2
    /\ call.before.remaining = {JoinCwd("a"), JoinCwd("d")}
    /\ fs[JoinCwd("d/e/c")] = Absent
    /\ Attempted("dir", JoinCwd("d"))
    /\ Attempted("ignore", "") /\ Attempted("unlock", "")
    /\ ~Attempted("manifest", "")
    /\ call.err


\* a recovery pass has just gone over a manifest file that cannot be parsed
OverBadManifest ==
    call.op = "clean" /\ call.before.world.manifest = BadManifest

\* C34: a recovery pass over a manifest file that cannot be parsed returns
\* an error, deletes no file or directory, leaves the settings alone and the
\* manifest file where it is, and, when it is forced, strips every tagged
\* block from the ignore file; when it is not forced the ignore file is
\* left alone too.
C34_UnparsableManifestSurfaced ==
    OverBadManifest =>
        /\ call.err
        /\ fs = call.before.world.fs
        /\ doc = call.before.world.doc
        /\ manifest = BadManifest
        /\ exclude = IF call.before.force
                     THEN removeAllGitIgnoreBlocks(call.before.world.exclude)
                     ELSE call.before.world.exclude
        /\ call.before.force => BlockIDs(exclude) = {}

\* a forced pass over an unparsable manifest, with staged copies on disk
\* and two tagged blocks in the ignore file
C34_Witness ==
    /\ OverBadManifest /\ call.before.force /\ call.err
    /\ fs[JoinCwd("a")] = "copy" /\ fs[JoinCwd("d/e/c")] = "copy"
    /\ BlockIDs(call.before.world.exclude) = {"r1", "r2"}
    /\ BlockIDs(exclude) = {}
    /\ manifest = BadManifest


\* C35: once the cleanup of a run has begun, on the signal path or after
\* the command's exit, signal.Notify is no longer in force, so that a
\* further signal ends the process by the platform's default action.
C35_DisarmedOnceCleanupBegins ==
    (Alive /\ once # "idle") => ~sigArmed


\* C36: appendGitIgnoreBlock called with a run id on an ignore file that
\* holds no start sentinel of exactly that run id writes the file and
\* leaves the block of that run id at its end, whatever blocks of other
\* run ids the file holds.
C36_AppendsUnlessOwnBlock ==
    ( /\ call.op = "append"
      /\ \A i \in 1..Len(call.before) : call.before[i] # <<"start", call.runID>> )
    => /\ call.wrote
       /\ Len(exclude) >= 4
       /\ IsBlockAt(exclude, call.runID, Len(exclude) - 3, Len(exclude) - 1)


\* the entries of .config the walk callback has been called for
Walked == {n \in Range(WalkEntries) : n \notin Range(queue)}

\* in how many places of the four lists the file rel of .config stands
BucketCount(rel) ==
    Cardinality({k \in 1..Len(createdFiles) : createdFiles[k] = JoinCwd(rel)})
    + Cardinality({k \in 1..Len(skippedExisting) : skippedExisting[k] = rel})
    + Cardinality({k \in 1..Len(skippedExcluded) : skippedExcluded[k] = rel})
    + Cardinality({k \in 1..Len(skippedRegistry) : skippedRegistry[k] = rel})

\* C37: while the walk over .config has not aborted, each of the three
\* reserved files it has visited stands in none of the four lists (staged,
\* skipped-existing, excluded, registry-skipped) and no copy of it was
\* made, every other file it has visited stands exactly once in exactly one
\* of them, and the lists hold nothing else; the list is decided in the
\* order: an exclude pattern matches, then the registry in force lists the
\* file and no override re-admits it, then the destination exists, and
\* only a file that none of these claims is staged (or counted as
\* skipped-existing when its directory could not be prepared).
C37_EveryFileInOneBucket ==
    (call.op \in {"begin", "walk"} /\ ~call.err) =>
        /\ \A n \in Walked :
              BucketCount(n) = IF n \in Reserved THEN 0 ELSE 1
        /\ Len(createdFiles) + Len(skippedExisting) + Len(skippedExcluded)
              + Len(skippedRegistry) = Cardinality(Walked \ Reserved)
        /\ (call.op = "walk" /\ call.paths[1] \in Reserved) =>
              fs = call.before.st.fs
        /\ (call.op = "walk" /\ call.paths[1] \notin Reserved) =>
              LET n == call.paths[1]
                  b == call.before
              IN  IF b.excluded
                  THEN n \in Range(skippedExcluded)
                  ELSE IF b.flag /\ b.config /\ n \in RegistryListed /\ ~b.overridden
                  THEN n \in Range(skippedRegistry)
                  ELSE IF exists(b.st.fs, JoinCwd(n))
                  THEN n \in Range(skippedExisting)
                  ELSE n \in Range(skippedExisting) \/ JoinCwd(n) \in Range(createdFiles)

\* the walk is over without an error: it passed the three reserved files,
\* left one file to the registry and staged the other
C37_Witness ==
    /\ call.op = "walk" /\ ~call.err /\ queue = <<>>
    /\ Reserved \subseteq Walked
    /\ skippedRegistry = <<"a">>
    /\ createdFiles = <<JoinCwd("d/e/c")>>
    /\ fs[JoinCwd("d/e/c")] = "copy"


(***************************************************************************)
(* Several confik processes started on one destination root: each takes    *)
(* the lock as in lock.go, then goes through run(): the pre-run recovery,  *)
(* the walk and writeManifest, cleanupStagedArtifacts up to its manifest   *)
(* step, and the release of the lock.  .config holds the one file "a", so  *)
(* the createdFiles of a process are told by where it is: <<cwd/a>> at     *)
(* "staged", <<>> at "empty".  The run id of process p is IDName[p]; each  *)
(* process is started once.                                                *)
(***************************************************************************)
\* where a process is while run() has the lock
InRun == {"held", "recovered", "staged", "empty", "cleaned"}

\* the createdFiles of a process that is at l
StagedAt(l) == IF l = "staged" THEN <<JoinCwd("a")>> ELSE <<>>

\* everything the processes sharing a root leave alone
shFrame == <<lockFile, src, gitDir, configDir, budget, notice, guarded,
             primErr, pc, parsed, useRegistry, runID, queue, createdFiles,
             createdDirs, skippedExisting, skippedExcluded, skippedRegistry,
             dirCache, vscodeContext, gitContext, lockHeld, once, cleanupErr,
             sigArmed, sigPending, sigPc, childCode, childErr, exitCode,
             startFs, edited, fsErr, refused, cleanupCount, sigSeen, exitVia,
             launched, killed>>

\* the record of a step of process p that reads or writes the manifest
SharedStep(op, p) ==
    [NoCall EXCEPT !.op = op,
                   !.before = [proc |-> p, lpc |-> lpc, manifest |-> manifest]]

\* run: cleanLeftovers(cwd, false, true) when a manifest is there
ShRecover(p, bad) ==
    /\ lpc[p] = "held"
    /\ manifest.st = "none" => bad = {}
    /\ \E r \in {IF manifest.st # "none"
                THEN cleanLeftovers(World, FALSE, gitDir, bad)
                ELSE [fs |-> fs, doc |-> doc, exclude |-> exclude,
                      manifest |-> manifest, err |-> FALSE]} :
           /\ fs' = r.fs /\ doc' = r.doc /\ exclude' = r.exclude
           /\ manifest' = r.manifest
    /\ lpc' = [lpc EXCEPT ![p] = "recovered"]
    /\ call' = SharedStep("recover", p)
    /\ UNCHANGED <<flock, shFrame>>

\* run: the walk over .config, then writeManifest when a file was staged
ShStage(p) ==
    /\ lpc[p] = "recovered"
    /\ \E r \in {WalkFile(WalkState(fs, <<>>, <<>>, <<>>, <<>>, <<>>, {}),
                           "a", FALSE, FALSE, FALSE, FALSE, "ok", TRUE)} :
           /\ fs' = r.fs
           /\ IF ShouldWriteManifest(FALSE, r.createdFiles)
              THEN /\ manifest' = Manifest(IDName[p], r.createdFiles,
                                           r.createdDirs, NoGit, NoVS)
                   /\ lpc' = [lpc EXCEPT ![p] = "staged"]
              ELSE /\ manifest' = manifest
                   /\ lpc' = [lpc EXCEPT ![p] = "empty"]
    /\ call' = SharedStep("stage", p)
    /\ UNCHANGED <<doc, exclude, flock, shFrame>>

\* cleanupStaging up to the manifest step of cleanupStagedArtifacts
ShCleanup(p, bad) ==
    /\ lpc[p] \in {"staged", "empty"}
    /\ \E r \in {cleanupStagedArtifacts(World, StagedAt(lpc[p]), <<>>, NoVS,
                                         NoGit, TRUE, bad)} :
           /\ fs' = r.fs /\ doc' = r.doc /\ exclude' = r.exclude
           /\ manifest' = r.manifest
    /\ lpc' = [lpc EXCEPT ![p] = "cleaned"]
    /\ call' = SharedStep("cleanup", p)
    /\ UNCHANGED <<flock, shFrame>>

\* cleanupStagedArtifacts: unlock()
ShUnlock(p) ==
    /\ lpc[p] = "cleaned"
    /\ flock' = IF flock = p THEN 0 ELSE flock
    /\ lpc' = [lpc EXCEPT ![p] = "released"]
    /\ UNCHANGED <<worldVars, call, shFrame>>

\* the process is killed: the kernel closes its descriptors
ShKill(p) ==
    /\ lpc[p] \in {"try", "blocked", "meta"} \cup InRun
    /\ flock' = IF flock = p THEN 0 ELSE flock
    /\ lpc' = [lpc EXCEPT ![p] = "dead"]
    /\ UNCHANGED <<worldVars, call, shFrame>>

NextShared ==
    \E p \in Procs :
        \/ \E openOk \in BOOLEAN : LOpen(p, openOk)
        \/ \E primOk \in BOOLEAN : LTryLock(p, primOk)
        \/ \E primOk \in BOOLEAN : LLockFile(p, primOk)
        \/ LWriteMeta(p)
        \/ \E bad \in {{}, {JoinCwd("a")}} : ShRecover(p, bad)
        \/ ShStage(p)
        \/ \E bad \in {{}, {JoinCwd("a")}, {manifestPath}} : ShCleanup(p, bad)
        \/ ShUnlock(p)
        \/ ShKill(p)

\* a project with .config/a and no git work tree, where the user may have
\* a file "a" of their own
InitShared ==
    /\ configDir = TRUE /\ gitDir = FALSE
    /\ src = {"a"}
    /\ budget = 0
    /\ exclude = NoFile
    /\ doc = NoDoc
    /\ fs \in {[q \in Paths |-> Absent],
               [q \in Paths |-> IF q = JoinCwd("a") THEN "user" ELSE Absent]}
    /\ NoProcess

SpecShared == InitShared /\ [][NextShared]_vars

\* C38: a process holds the flock at every point of run() from the return
\* of acquireLock, before the pre-run recovery, to the end of the manifest
\* step of its cleanup; while a run has its manifest written and its
\* cleanup not yet done, the manifest on disk is the one it wrote; no
\* recovery, staging or cleanup step of a process is ever taken while
\* another process is within run(); and at most one run at a time has a
\* manifest of its own on disk.
C38_LockGuardsManifest ==
    /\ \A p \in Procs : lpc[p] \in InRun => flock = p
    /\ \A p \in Procs :
          lpc[p] = "staged" =>
              manifest = Manifest(IDName[p], <<JoinCwd("a")>>, <<>>, NoGit, NoVS)
    /\ call.op \in {"recover", "stage", "cleanup"} =>
          \A q \in Procs \ {call.before.proc} : call.before.lpc[q] \notin InRun
    /\ Cardinality({p \in Procs : lpc[p] = "staged"}) <= 1

\* a process that had to wait for the lock while another run was staged
\* has taken it after that run was killed, and its recovery has dealt with
\* the manifest the killed run left
C38_Witness ==
    /\ call.op = "recover"
    /\ notice[call.before.proc]
    /\ call.before.manifest.st = "ok"
    /\ call.before.manifest.RunID # IDName[call.before.proc]
    /\ \E q \in Procs : lpc[q] = "dead" /\ call.before.manifest.RunID = IDName[q]
    /\ manifest.st = "none"


\* the step is the cleanup of a run that created settings.json, to which
\* someone has since added a key or a comment, and after it the file is
\* still there while every other file the run created, every directory it
\* created but .vscode, and its ignore block are gone
KeptSettingsCleanup ==
    /\ cleanupCount' = cleanupCount + 1
    /\ manifest.st = "ok"
    /\ vscodeContext.on /\ vscodeContext.SettingsCreated
    /\ doc.st = "doc"
    /\ doc.other \/ containsJSONCComment(doc) \/ "h" \in doc.keys
    /\ fs'[settingsPath] # Absent
    /\ \A f \in Range(createdFiles) \ {settingsPath} : fs'[f] = Absent
    /\ \A d \in Range(createdDirs) \ {settingsDir} : fs'[d] = Absent
    /\ gitContext.on => ~ContainsStart(exclude', gitContext.RunID)

NoSentinels(c) == \A i \in 1..Len(c) : c[i][1] = "text"

====
